---- MODULE Spec2Model ----
(***************************************************************************)
(* The memory engine of Roy: remember / recall / forget over one SQLite    *)
(* database holding the record table memory_records, the full-text table   *)
(* memory_fts and the vector table memory_vec.                             *)
(*                                                                         *)
(* Representation.  A text is the sequence of its words (whitespace is     *)
(* already collapsed), the tokenizer yields one token per word, and        *)
(* "substring" is contiguous sub-sequence.  Reals are fixed-point integers *)
(* in units of 1/SCALE.  An embedding is a record [null, len, v]: a vector *)
(* of length len whose leading components are v and whose remaining        *)
(* components are zero.  UUIDs are fresh integers.  Date.now() is `clock`, *)
(* in milliseconds.                                                        *)
(***************************************************************************)
EXTENDS Integers, Sequences, FiniteSets, TLC

VARIABLES dbSingleton, annStatus, ftsTable,
          memory_records, memory_vec, memory_fts,
          clock, nextUuid, lastOp, calls,
          args, ret

vars == <<dbSingleton, annStatus, ftsTable, memory_records, memory_vec,
          memory_fts, clock, nextUuid, lastOp, calls, args, ret>>

(***************************************************************************)
(* Bounds of the model.                                                    *)
(***************************************************************************)
MaxUuid == 3
MaxClock == 1
MaxRecallCount == 2
LongLen == 400

(***************************************************************************)
(* Program constants.                                                      *)
(***************************************************************************)
EMBEDDING_DIM == 384
DEDUP_CANDIDATE_LIMIT == 12
SCALE == 100 * 100
DEDUP_THRESHOLD == (95 * SCALE) \div 100
CHUNK_TOKENS == 220
OVERLAP_TOKENS == 40
DEFAULT_IMPORTANCE == SCALE \div 2
DEFAULT_LIMIT == 8

Undefined == "undefined"
NullTime == 0 - 1
NullId == 0

Min(a, b) == IF a <= b THEN a ELSE b
Max(a, b) == IF a >= b THEN a ELSE b

MEMORY_KINDS == {"identity", "task", "knowledge", "reference", "note", "unclassified"}

(***************************************************************************)
(* Texts.                                                                  *)
(***************************************************************************)
Blank == << >>
Freedom == <<"freedom", "is", "the", "goal">>
Liberty == <<"liberty", "is", "the", "goal">>
DbTuning == <<"db", "tuning">>
LongDoc == [i \in 1..LongLen |->
              IF i = 1 THEN "alpha"
              ELSE IF i = 181 THEN "beta"
              ELSE IF i = 361 THEN "gamma"
              ELSE "w"]

Contents == {Blank, Freedom, Liberty, LongDoc}
Queries == {Blank, Freedom, DbTuning}

(***************************************************************************)
(* The embedder (external capability): a deterministic map from text to a  *)
(* unit-norm vector; here vectors of norm 65 in the plane, selected by the *)
(* first word of the text.                                                 *)
(***************************************************************************)
Vec(x, y) == [null |-> FALSE, len |-> EMBEDDING_DIM, v |-> <<x, y>>]
NullEmbedding == [null |-> TRUE, len |-> 0, v |-> << >>]

IdentityWords == {"i", "my", "about"}
TaskWords == {"todo", "fix", "need", "next", "plan", "action", "deadline", "ship"}
KnowledgeWords == {"tokyo", "eigen", "sqlite", "typescript", "the", "covariance"}
ReferenceWords == {"documentation", "api", "according", "see", "official", "readme",
                   "rfc", "reference", "specification", "this"}
NoteWords == {"quick", "idea", "draft", "scratch", "temporary", "remember", "thought",
              "note", "personal"}

embedText(text) ==
  IF text = << >> THEN Vec(16, 63)
  ELSE CASE text[1] = "freedom" -> Vec(65, 0)
         [] text[1] = "liberty" -> Vec(63, 16)
         [] text[1] = "db" -> Vec(0, 65)
         [] text[1] = "alpha" -> Vec(60, 25)
         [] text[1] = "beta" -> Vec(25, 60)
         [] text[1] = "gamma" -> Vec(56, 33)
         [] text[1] = "user" -> Vec(33, 56)
         [] text[1] = "assistant" -> Vec(52, 39)
         [] text[1] \in KnowledgeWords -> Vec(65, 0)
         [] text[1] \in ReferenceWords -> Vec(0, 65)
         [] text[1] \in TaskWords -> Vec(0 - 65, 0)
         [] text[1] \in IdentityWords -> Vec(0, 0 - 65)
         [] text[1] \in NoteWords -> Vec(0 - 39, 52)
         [] OTHER -> Vec(39, 52)

embedTexts(texts) == [i \in 1..Len(texts) |-> embedText(texts[i])]

tokenizeText(text) == text
decodeTokens(tokenIds) == tokenIds
estimateTokenCount(text) == IF text = << >> THEN 0 ELSE Len(tokenizeText(text))

(***************************************************************************)
(* cosine (retrieval): dot / (sqrt(na) * sqrt(nb)), in units of 1/SCALE.   *)
(***************************************************************************)
RECURSIVE ISqrtBetween(_, _, _)
ISqrtBetween(n, lo, hi) ==
  IF lo >= hi THEN lo
  ELSE LET mid == (lo + hi + 1) \div 2
       IN IF mid * mid <= n THEN ISqrtBetween(n, mid, hi) ELSE ISqrtBetween(n, lo, mid - 1)
ISqrt(n) == ISqrtBetween(n, 0, Min(n, 46340))

RECURSIVE DotFrom(_, _, _)
DotFrom(a, b, i) ==
  IF i > Len(a) \/ i > Len(b) THEN 0 ELSE a[i] * b[i] + DotFrom(a, b, i + 1)

cosine(a, b) ==
  IF a.len = 0 \/ b.len = 0 \/ a.len # b.len THEN 0
  ELSE LET dot == DotFrom(a.v, b.v, 1)
           na == DotFrom(a.v, a.v, 1)
           nb == DotFrom(b.v, b.v, 1)
       IN IF na = 0 \/ nb = 0 THEN 0
          ELSE (dot * SCALE) \div (ISqrt(na) * ISqrt(nb))

(***************************************************************************)
(* chunkText (chunk.ts).                                                   *)
(***************************************************************************)
RECURSIVE ChunkWindows(_, _, _, _)
ChunkWindows(tokenIds, start, chunkTokens, step) ==
  IF start >= Len(tokenIds) THEN << >>
  ELSE LET end == Min(Len(tokenIds), start + chunkTokens)
           textChunk == decodeTokens(SubSeq(tokenIds, start + 1, end))
           here == IF textChunk # << >> THEN <<textChunk>> ELSE << >>
       IN IF end >= Len(tokenIds) THEN here
          ELSE here \o ChunkWindows(tokenIds, start + step, chunkTokens, step)

\* chunkText whose windows advance by a whole window.
chunkTextNoOverlap(text, chunkTokens, overlapTokens) ==
  LET normalized == text
      tokenIds == tokenizeText(normalized)
  IN IF normalized = << >> THEN << >>
     ELSE IF Len(tokenIds) = 0 THEN << >>
     ELSE IF Len(tokenIds) <= chunkTokens THEN <<normalized>>
     ELSE ChunkWindows(tokenIds, 0, chunkTokens, Max(1, chunkTokens))

chunkText(text, chunkTokens, overlapTokens) ==
  LET normalized == text
      tokenIds == tokenizeText(normalized)
  IN IF normalized = << >> THEN << >>
     ELSE IF Len(tokenIds) = 0 THEN << >>
     ELSE IF Len(tokenIds) <= chunkTokens THEN <<normalized>>
     ELSE ChunkWindows(tokenIds, 0, chunkTokens, Max(1, chunkTokens - overlapTokens))

(***************************************************************************)
(* Tables.  A store value st gathers what one database handle sees:        *)
(*   rec   memory_records, id -> row                                       *)
(*   vec   memory_vec, id -> [embedding, scope]                            *)
(*   fts   memory_fts, a set of [id, content]                              *)
(*   ann   annStatus.enabled                                               *)
(*   vecOn whether memory_vec exists and sqlite-vec is loaded              *)
(*   ftsOn whether memory_fts exists                                       *)
(* A database call returns [err, st]; err = "" when it did not throw.      *)
(***************************************************************************)
EmptyTable == [i \in {} |-> 0]
Put(f, k, val) == [i \in (DOMAIN f) \cup {k} |-> IF i = k THEN val ELSE f[i]]
Drop(f, k) == [i \in (DOMAIN f) \ {k} |-> f[i]]
Ok(st) == [err |-> "", st |-> st]
Throw(msg, st) == [err |-> msg, st |-> st]

RECURSIVE IdsAsc(_)
IdsAsc(S) ==
  IF S = {} THEN << >>
  ELSE LET m == CHOOSE x \in S : \A y \in S : x <= y
       IN <<m>> \o IdsAsc(S \ {m})

RECURSIVE InsertStable(_, _, _)
InsertStable(sorted, x, key) ==
  IF sorted = << >> THEN <<x>>
  ELSE IF key[Head(sorted)] <= key[x]
       THEN <<Head(sorted)>> \o InsertStable(Tail(sorted), x, key)
       ELSE <<x>> \o sorted

RECURSIVE SortByKey(_, _)
SortByKey(seq, key) ==
  IF seq = << >> THEN << >>
  ELSE InsertStable(SortByKey(SubSeq(seq, 1, Len(seq) - 1), key), seq[Len(seq)], key)

Range(seq) == {seq[i] : i \in 1..Len(seq)}
Take(seq, n) == SubSeq(seq, 1, Min(Len(seq), Max(0, n)))

\* The first occurrences of the elements of seq, in their order.
FirstOccurrences(seq) == {i \in 1..Len(seq) : \A j \in 1..(i - 1) : seq[j] # seq[i]}
NthOf(S, n) == CHOOSE i \in S : Cardinality({j \in S : j < i}) = n - 1
UniqAt(seq, first) == [n \in 1..Cardinality(first) |-> seq[NthOf(first, n)]]
Uniq(seq) == UniqAt(seq, FirstOccurrences(seq))

(***************************************************************************)
(* query.ts: the vector table memory_vec.                                  *)
(***************************************************************************)
\* upsertEmbedding that returns before its DELETE and INSERT.
upsertEmbeddingSkipped(st, id, scope, embedding) == Ok(st)

upsertEmbedding(st, id, scope, embedding) ==
  IF embedding.null \/ embedding.len # EMBEDDING_DIM THEN Ok(st)
  ELSE IF ~st.vecOn THEN Throw("no such table: memory_vec", st)
  ELSE Ok([st EXCEPT !.vec = Put(@, id, [embedding |-> embedding, scope |-> scope])])

deleteEmbedding(st, id) ==
  IF ~st.vecOn THEN Throw("no such table: memory_vec", st)
  ELSE Ok([st EXCEPT !.vec = Drop(@, id)])

RECURSIVE Dist2From(_, _, _)
Dist2From(a, b, i) ==
  IF i > Len(a) \/ i > Len(b) THEN 0
  ELSE (a[i] - b[i]) * (a[i] - b[i]) + Dist2From(a, b, i + 1)

searchNearest(st, queryEmbedding, limit, scope) ==
  IF queryEmbedding.len # EMBEDDING_DIM \/ limit <= 0 THEN << >>
  ELSE LET hits == {id \in DOMAIN st.vec : scope = Undefined \/ st.vec[id].scope = scope}
           distance == [id \in hits |-> Dist2From(queryEmbedding.v, st.vec[id].embedding.v, 1)]
       IN Take(SortByKey(IdsAsc(hits), distance), limit)

(***************************************************************************)
(* db.ts.                                                                  *)
(***************************************************************************)
syncAnnIndex(st) ==
  IF ~st.ann THEN st
  ELSE LET withEmbedding == {id \in DOMAIN st.rec : ~st.rec[id].embedding.null}
           entry(id) == [embedding |-> st.rec[id].embedding, scope |-> st.rec[id].scope]
       IN [st EXCEPT !.vec =
             [id \in (DOMAIN @) \cup {i \in withEmbedding : st.rec[i].embedding.len = EMBEDDING_DIM} |->
                IF id \in withEmbedding /\ st.rec[id].embedding.len = EMBEDDING_DIM
                THEN entry(id) ELSE @[id]]]

RECURSIVE InsertLoop(_, _, _, _)
InsertLoop(st, rows, i, fault) ==
  IF i > Len(rows) THEN Ok(st)
  ELSE LET r == rows[i]
       IN IF fault = i \/ r.id \in DOMAIN st.rec THEN Throw("storage_error", st)
          ELSE LET st1 == [st EXCEPT !.rec = Put(@, r.id, r)]
                   up == upsertEmbedding(st1, r.id, r.scope, r.embedding)
               IN IF up.err # "" THEN up
                  ELSE LET st2 == IF up.st.ftsOn
                                  THEN [up.st EXCEPT !.fts = @ \cup {[id |-> r.id, content |-> r.content]}]
                                  ELSE up.st
                       IN InsertLoop(st2, rows, i + 1, fault)

\* insertMemoryRows without its ROLLBACK: the rows written before the error stay.
insertMemoryRowsNoRollback(st, rows, fault) ==
  IF Len(rows) = 0 THEN Ok(st) ELSE InsertLoop(st, rows, 1, fault)

insertMemoryRows(st, rows, fault) ==
  IF Len(rows) = 0 THEN Ok(st)
  ELSE LET res == InsertLoop(st, rows, 1, fault)
       IN IF res.err # "" THEN Throw(res.err, st) ELSE res

countMemories(st, scope) ==
  Cardinality({id \in DOMAIN st.rec : scope = Undefined \/ st.rec[id].scope = scope})

loadMemoriesByIds(st, ids) ==
  SelectSeq(ids, LAMBDA id : id \in DOMAIN st.rec)

\* searchVectorIds without its annStatus.enabled guard (its try/catch kept).
searchVectorIdsUnguarded(st, queryEmbedding, limit, scope) ==
  IF ~st.vecOn THEN << >> ELSE searchNearest(st, queryEmbedding, limit, scope)

searchVectorIds(st, queryEmbedding, limit, scope) ==
  IF ~st.ann THEN << >> ELSE searchNearest(st, queryEmbedding, limit, scope)

IsPrefixAt(needle, hay, at) ==
  \A j \in 1..Len(needle) : at + j - 1 <= Len(hay) /\ hay[at + j - 1] = needle[j]

Includes(hay, needle) ==
  \E at \in 1..(Len(hay) + 1) : IsPrefixAt(needle, hay, at)

\* db.ts 325-332: the WHERE clause of countMemoriesByKind; opts = [scope, query],
\* the LIKE pattern %query% matched on whole words.
MatchesFilter(row, opts) ==
  /\ opts.scope = Undefined \/ row.scope = opts.scope
  /\ opts.query = << >> \/ Includes(row.content, opts.query)

countMemoriesByKind(st, opts) ==
  LET matching == {id \in DOMAIN st.rec : MatchesFilter(st.rec[id], opts)}
      rows == {st.rec[id].kind : id \in matching}
  IN [kind \in MEMORY_KINDS |->
        IF kind \in rows THEN Cardinality({id \in matching : st.rec[id].kind = kind}) ELSE 0]

FtsMatch(content, query) == \A i \in 1..Len(query) : query[i] \in Range(content)

searchFtsIds(st, query, limit) ==
  IF query = << >> THEN << >>
  ELSE IF ~st.ftsOn THEN << >>
  ELSE Take(IdsAsc({e.id : e \in {x \in st.fts : FtsMatch(x.content, query)}}), limit)

RECURSIVE BestCandidate(_, _, _, _, _)
BestCandidate(st, embedding, candidates, best, bestScore) ==
  IF candidates = << >> THEN [best |-> best, bestScore |-> bestScore]
  ELSE LET c == st.rec[Head(candidates)]
           sim == cosine(embedding, c.embedding)
       IN IF c.embedding.null THEN BestCandidate(st, embedding, Tail(candidates), best, bestScore)
          ELSE IF sim > bestScore THEN BestCandidate(st, embedding, Tail(candidates), c.id, sim)
          ELSE BestCandidate(st, embedding, Tail(candidates), best, bestScore)

DuplicateAmong(st, embedding, vectorIds, threshold) ==
  LET candidates == loadMemoriesByIds(st, vectorIds)
      found == BestCandidate(st, embedding, candidates, NullId, 0 - SCALE)
  IN IF found.bestScore >= threshold THEN found.best ELSE NullId

findSemanticDuplicate(st, embedding, scope, threshold) ==
  IF embedding.len = 0 THEN NullId
  ELSE DuplicateAmong(st, embedding,
                      searchVectorIds(st, embedding, DEDUP_CANDIDATE_LIMIT, scope), threshold)

\* mergeIntoExistingMemory whose UPDATE leaves the stored kind and so never
\* binds a missing one.
mergeIntoExistingMemoryKeepingKind(st, existingId, incoming) ==
  LET exists == existingId \in DOMAIN st.rec
      st1 == IF exists
             THEN [st EXCEPT !.rec[existingId] =
                     [@ EXCEPT !.content = incoming.content,
                               !.embedding = incoming.embedding,
                               !.importance = Min(SCALE, (@ * 90 + incoming.importance * 10) \div 100),
                               !.tokenCount = incoming.tokenCount,
                               !.updatedAt = incoming.updatedAt,
                               !.validityScore = Min(SCALE, @ + SCALE \div 100)]]
             ELSE st
      scope == IF exists THEN st.rec[existingId].scope ELSE "global"
  IN upsertEmbedding(st1, existingId, scope, incoming.embedding)

mergeIntoExistingMemory(st, existingId, incoming) ==
  LET exists == existingId \in DOMAIN st.rec
  IN IF exists /\ incoming.kind = Undefined
     THEN Throw("NOT NULL constraint failed: memory_records.kind", st)
     ELSE LET st1 == IF exists
                     THEN [st EXCEPT !.rec[existingId] =
                             [@ EXCEPT !.content = incoming.content,
                                       !.kind = incoming.kind,
                                       !.embedding = incoming.embedding,
                                       !.importance = Min(SCALE, (@ * 90 + incoming.importance * 10) \div 100),
                                       !.tokenCount = incoming.tokenCount,
                                       !.updatedAt = incoming.updatedAt,
                                       !.validityScore = Min(SCALE, @ + SCALE \div 100)]]
                     ELSE st
              scope == IF exists THEN st.rec[existingId].scope ELSE "global"
              up == upsertEmbedding(st1, existingId, scope, incoming.embedding)
          IN IF up.err # "" THEN up
             ELSE IF ~up.st.ftsOn THEN up
             ELSE Ok([up.st EXCEPT !.fts = {e \in @ : e.id # existingId}
                                           \cup {[id |-> existingId, content |-> incoming.content]}])

RECURSIVE BumpLoop(_, _, _, _)
BumpLoop(st, ids, recallBoost, now) ==
  IF ids = << >> THEN st
  ELSE LET id == Head(ids)
           st1 == IF id \in DOMAIN st.rec
                  THEN [st EXCEPT !.rec[id] =
                          [@ EXCEPT !.recallCount = @ + 1,
                                    !.lastRecalledAt = now,
                                    !.updatedAt = now,
                                    !.importance = Min(SCALE, (@ * 98) \div 100 + recallBoost)]]
                  ELSE st
       IN BumpLoop(st1, Tail(ids), recallBoost, now)

\* bumpRecallMetrics with `last_recalled_at = ?` left out of the UPDATE.
bumpRecallMetricsNoTimestamp(st, ids, recallBoost, now) ==
  [st EXCEPT !.rec = [id \in DOMAIN @ |->
     IF id \in Range(ids) THEN [@[id] EXCEPT !.recallCount = @ + 1, !.updatedAt = now]
     ELSE @[id]]]

bumpRecallMetrics(st, ids, recallBoost, now) ==
  IF Len(ids) = 0 THEN st ELSE BumpLoop(st, ids, recallBoost, now)

markMemoryInvalid(st, id, score, now) ==
  IF id \in DOMAIN st.rec
  THEN [st EXCEPT !.rec[id] = [@ EXCEPT !.validityScore = Max(0, score),
                                        !.isNegative = TRUE,
                                        !.updatedAt = now]]
  ELSE st

deleteMemory(st, id) ==
  LET st1 == [st EXCEPT !.rec = Drop(@, id)]
      del == deleteEmbedding(st1, id)
  IN IF del.err # "" THEN del
     ELSE IF ~del.st.ftsOn THEN del
     ELSE Ok([del.st EXCEPT !.fts = {e \in @ : e.id # id}])

(***************************************************************************)
(* query.ts: expandQuery.                                                  *)
(***************************************************************************)
EXPANSION_KEYS == {"db", "llm", "rag", "ts", "js", "ai"}
EXPANSION_MAP(token) ==
  CASE token = "db" -> <<<<"database">>, <<"sqlite">>, <<"storage">>>>
    [] token = "llm" -> <<<<"language", "model">>, <<"deepseek">>, <<"model">>>>
    [] token = "rag" -> <<<<"retrieval", "augmented", "generation">>, <<"memory", "retrieval">>>>
    [] token = "ts" -> <<<<"typescript">>>>
    [] token = "js" -> <<<<"javascript">>>>
    [] token = "ai" -> <<<<"artificial", "intelligence">>, <<"model">>>>
    [] OTHER -> << >>

RECURSIVE Flatten(_)
Flatten(seqs) == IF seqs = << >> THEN << >> ELSE Head(seqs) \o Flatten(Tail(seqs))

\* tokenize (query.ts 10-16): lower case, then every character outside a-z,
\* 0-9 and U+4E00..U+9FA5 separates tokens.  The tokens of one word of a text:
TokensOfWord(word) ==
  CASE word = "DB" -> <<"db">>
    [] word = "db," -> <<"db">>
    [] word = "ai/llm" -> <<"ai", "llm">>
    [] word = "?!" -> << >>
    [] OTHER -> <<word>>

tokenize(text) ==
  IF \A i \in 1..Len(text) : TokensOfWord(text[i]) = <<text[i]>> THEN text
  ELSE Flatten([i \in 1..Len(text) |-> TokensOfWord(text[i])])

\* The tokens for which EXPANSION_MAP[token] is a property inherited from
\* Object.prototype: among lower-case alphanumeric tokens, "constructor",
\* whose value is a function and not an iterable.
InheritedKeys == {"constructor"}

RECURSIVE AliasesOf(_, _, _)
AliasesOf(trimmed, aliases, i) ==
  IF i > Len(aliases) THEN << >>
  ELSE <<aliases[i], trimmed \o aliases[i]>> \o AliasesOf(trimmed, aliases, i + 1)

RECURSIVE ExpandTokens(_, _, _)
ExpandTokens(trimmed, tokens, i) ==
  IF i > Len(tokens) THEN << >>
  ELSE AliasesOf(trimmed, EXPANSION_MAP(tokens[i]), 1) \o ExpandTokens(trimmed, tokens, i + 1)

\* The result is [err, val]: for (const alias of aliases) throws a TypeError
\* when aliases is the inherited function.
expandQuery(query) ==
  LET trimmed == query
  IN IF trimmed = << >> THEN [err |-> "", val |-> << >>]
     ELSE IF \E i \in 1..Len(tokenize(trimmed)) : tokenize(trimmed)[i] \in InheritedKeys
          THEN [err |-> "TypeError: aliases is not iterable", val |-> << >>]
     ELSE [err |-> "", val |-> Uniq(<<trimmed>> \o ExpandTokens(trimmed, tokenize(trimmed), 1))]

(***************************************************************************)
(* index.ts: remember.  opts = [kind, scope, importance, validityScore,    *)
(* isNegative]; an absent string option is Undefined, an absent number is  *)
(* NoNumber.  `fault` is the row at which the record insert fails (0: the  *)
(* database accepts every row).  The result is [err, st, ret, news, dup]:  *)
(* the error thrown, the store left behind, the id of the returned record, *)
(* the ids of the rows inserted, and whether a duplicate was found.        *)
(***************************************************************************)
NoNumber == 0 - 999999
OrDefault(x, d) == IF x = NoNumber THEN d ELSE x
KindOrDefault(kind) == IF kind = Undefined THEN "knowledge" ELSE kind
ScopeOrDefault(scope) == IF scope = Undefined THEN "global" ELSE scope

NewRow(id, parentId, index, chunk, embedding, tokenCount, opts, now) ==
  [id |-> id,
   parentId |-> parentId,
   chunkIndex |-> index,
   content |-> chunk,
   embedding |-> embedding,
   kind |-> KindOrDefault(opts.kind),
   scope |-> ScopeOrDefault(opts.scope),
   importance |-> OrDefault(opts.importance, DEFAULT_IMPORTANCE),
   tokenCount |-> tokenCount,
   recallCount |-> 0,
   lastRecalledAt |-> NullTime,
   validityScore |-> Max(0, Min(SCALE, OrDefault(opts.validityScore, SCALE))),
   isNegative |-> opts.isNegative,
   createdAt |-> now,
   updatedAt |-> now]

\* The merge argument of remember with the kind of the call passed along.
MergeIncomingWithKind(chunk, embedding, tokenCount, opts, now) ==
  [content |-> chunk,
   importance |-> OrDefault(opts.importance, DEFAULT_IMPORTANCE),
   updatedAt |-> now,
   embedding |-> embedding,
   tokenCount |-> tokenCount,
   kind |-> KindOrDefault(opts.kind)]

MergeIncoming(chunk, embedding, tokenCount, opts, now) ==
  [content |-> chunk,
   importance |-> OrDefault(opts.importance, DEFAULT_IMPORTANCE),
   updatedAt |-> now,
   embedding |-> embedding,
   tokenCount |-> tokenCount,
   kind |-> Undefined]

RECURSIVE RememberLoop(_, _, _, _, _, _, _, _, _)
RememberLoop(st, chunks, embeddings, index, rows, firstExisting, opts, now, uuid) ==
  IF index >= Len(chunks)
  THEN [err |-> "", st |-> st, rows |-> rows, firstExisting |-> firstExisting]
  ELSE LET chunk == chunks[index + 1]
           embedding == embeddings[index + 1]
           tokenCount == estimateTokenCount(chunk)
           duplicate == IF embedding.null THEN NullId
                        ELSE findSemanticDuplicate(st, embedding, ScopeOrDefault(opts.scope), DEDUP_THRESHOLD)
       IN IF duplicate # NullId
          THEN LET m == mergeIntoExistingMemory(st, duplicate,
                          MergeIncoming(chunk, embedding, tokenCount, opts, now))
               IN IF m.err # ""
                  THEN [err |-> m.err, st |-> m.st, rows |-> rows, firstExisting |-> duplicate]
                  ELSE RememberLoop(m.st, chunks, embeddings, index + 1, rows,
                                    IF firstExisting = NullId THEN duplicate ELSE firstExisting,
                                    opts, now, uuid)
          ELSE RememberLoop(st, chunks, embeddings, index + 1,
                            Append(rows, NewRow(uuid + Len(rows), uuid, index, chunk,
                                                embedding, tokenCount, opts, now)),
                            firstExisting, opts, now, uuid)

RowIds(rows) == {rows[i].id : i \in 1..Len(rows)}

Failed(msg, st, dup) == [err |-> msg, st |-> st, ret |-> NullId, news |-> {}, dup |-> dup]

\* index.ts 109-112: after insertMemoryRows, the value remember returns.
RememberReturn(loop, ins) ==
  IF ins.err # "" THEN Failed(ins.err, ins.st, loop.firstExisting # NullId)
  ELSE IF Len(loop.rows) > 0
       THEN [err |-> "", st |-> ins.st, ret |-> loop.rows[1].id,
             news |-> RowIds(loop.rows), dup |-> loop.firstExisting # NullId]
  ELSE IF loop.firstExisting # NullId
       THEN [err |-> "", st |-> ins.st, ret |-> loop.firstExisting,
             news |-> {}, dup |-> TRUE]
  ELSE Failed("remember_noop", ins.st, FALSE)

\* index.ts 74-109: an error thrown inside the loop ends the call, otherwise
\* the pending rows are inserted.
RememberInsert(loop, fault) ==
  IF loop.err # "" THEN Failed(loop.err, loop.st, TRUE)
  ELSE RememberReturn(loop, insertMemoryRows(loop.st, loop.rows, fault))

RememberChunks(st, chunks, opts, now, uuid, fault) ==
  IF Len(chunks) = 0 THEN Failed("empty_memory_chunks", st, FALSE)
  ELSE RememberInsert(RememberLoop(st, chunks, embedTexts(chunks), 0, << >>, NullId,
                                   opts, now, uuid), fault)

remember(st, content, opts, now, uuid, fault) ==
  IF content = << >> THEN Failed("empty_memory_content", st, FALSE)
  ELSE RememberChunks(st, chunkText(content, CHUNK_TOKENS, OVERLAP_TOKENS), opts, now, uuid, fault)

(***************************************************************************)
(* retrieval: scoreCandidates and rerankWithMMR.  A scored memory is       *)
(* [m, vectorScore, lexicalScore, recencyScore, importanceScore, score]    *)
(* with m the record.                                                      *)
(***************************************************************************)
HOUR_MS == 3600000
DAY_MS == 86400000
NEGATIVE_PENALTY == SCALE \div 4
LAMBDA_PCT == 75

lexicalScore(query, content) ==
  LET q == tokenize(query)
      set == Range(tokenize(content))
      hit == Cardinality({i \in 1..Len(q) : q[i] \in set})
  IN IF Len(q) = 0 THEN 0
     ELSE LET overlap == (hit * SCALE) \div Len(q)
              contains == IF Includes(content, query) THEN (3 * SCALE) \div 10 ELSE 0
          IN Min(SCALE, overlap + contains)

recencyScore(updatedAt, now) ==
  LET ageMs == now - updatedAt
  IN IF ageMs <= 24 * HOUR_MS THEN SCALE
     ELSE Min(SCALE, (24 * HOUR_MS) \div (ageMs \div SCALE))

RECURSIVE Pow99(_)
Pow99(days) == IF days <= 0 THEN SCALE ELSE (Pow99(days - 1) * 99) \div 100

effectiveImportance(importance, updatedAt, now) ==
  LET ageDays == Max(0, (now - updatedAt) \div DAY_MS)
      decay == Pow99(ageDays)
      normalized == Max(0, Min(SCALE, importance))
  IN (normalized * decay) \div SCALE

\* scoreCandidates without the negative penalty.
ScoreOneNoPenalty(query, queryEmbedding, m, lexicalHitIds, now) ==
  LET vectorScore == IF ~queryEmbedding.null /\ ~m.embedding.null
                     THEN Max(0, cosine(queryEmbedding, m.embedding)) ELSE 0
      lexical == lexicalScore(query, m.content)
      lexicalBoost == IF m.id \in lexicalHitIds THEN Min(SCALE, lexical + (4 * SCALE) \div 10) ELSE lexical
      recency == recencyScore(m.updatedAt, now)
      importance == effectiveImportance(m.importance, m.updatedAt, now)
      validity == Max(0, Min(SCALE, m.validityScore))
      score == (60 * vectorScore + 20 * lexicalBoost + 10 * importance + 10 * recency) \div 100
  IN [m |-> m, vectorScore |-> vectorScore, lexicalScore |-> lexicalBoost,
      recencyScore |-> recency, importanceScore |-> importance,
      score |-> Max(0, (score * validity) \div SCALE)]

ScoreOne(query, queryEmbedding, m, lexicalHitIds, now) ==
  LET vectorScore == IF ~queryEmbedding.null /\ ~m.embedding.null
                     THEN Max(0, cosine(queryEmbedding, m.embedding)) ELSE 0
      lexical == lexicalScore(query, m.content)
      lexicalBoost == IF m.id \in lexicalHitIds THEN Min(SCALE, lexical + (4 * SCALE) \div 10) ELSE lexical
      recency == recencyScore(m.updatedAt, now)
      importance == effectiveImportance(m.importance, m.updatedAt, now)
      validity == Max(0, Min(SCALE, m.validityScore))
      negativePenalty == IF m.isNegative THEN NEGATIVE_PENALTY ELSE 0
      score == (60 * vectorScore + 20 * lexicalBoost + 10 * importance + 10 * recency) \div 100
      adjusted == Max(0, (score * validity) \div SCALE - negativePenalty)
  IN [m |-> m, vectorScore |-> vectorScore, lexicalScore |-> lexicalBoost,
      recencyScore |-> recency, importanceScore |-> importance, score |-> adjusted]

scoreCandidates(query, queryEmbedding, memories, lexicalHitIds, now) ==
  [i \in 1..Len(memories) |-> ScoreOne(query, queryEmbedding, memories[i], lexicalHitIds, now)]

SortByScoreDesc(scored) == SortByKey(scored, [x \in Range(scored) |-> 0 - x.score])

MaxSimilarity(cand, selected) ==
  IF Len(selected) = 0 THEN 0
  ELSE LET sims == {IF ~cand.m.embedding.null /\ ~selected[i].m.embedding.null
                    THEN Max(0, cosine(cand.m.embedding, selected[i].m.embedding)) ELSE 0
                    : i \in 1..Len(selected)}
       IN CHOOSE x \in sims : \A y \in sims : x >= y

\* mmrValue without its similarity term.
MmrValueScoreOnly(cand, selected, lambda) == lambda * cand.score

MmrValue(cand, selected, lambda) ==
  lambda * cand.score - (100 - lambda) * MaxSimilarity(cand, selected)

BestIndex(pool, selected, lambda) ==
  CHOOSE i \in 1..Len(pool) :
    /\ \A j \in 1..Len(pool) : MmrValue(pool[i], selected, lambda) >= MmrValue(pool[j], selected, lambda)
    /\ \A j \in 1..(i - 1) : MmrValue(pool[j], selected, lambda) < MmrValue(pool[i], selected, lambda)

RECURSIVE MmrSelect(_, _, _, _)
MmrSelect(pool, selected, limit, lambda) ==
  IF ~(Len(selected) < limit /\ Len(pool) > 0) THEN selected
  ELSE LET bestIndex == BestIndex(pool, selected, lambda)
       IN MmrSelect(SubSeq(pool, 1, bestIndex - 1) \o SubSeq(pool, bestIndex + 1, Len(pool)),
                    Append(selected, pool[bestIndex]), limit, lambda)

PresentBefore(a, b) ==
  \/ a.score > b.score
  \/ a.score = b.score /\ a.m.updatedAt > b.m.updatedAt
  \/ a.score = b.score /\ a.m.updatedAt = b.m.updatedAt /\ a.m.id < b.m.id

RECURSIVE InsertPresented(_, _)
InsertPresented(sorted, x) ==
  IF sorted = << >> THEN <<x>>
  ELSE IF PresentBefore(x, Head(sorted)) THEN <<x>> \o sorted
  ELSE <<Head(sorted)>> \o InsertPresented(Tail(sorted), x)

RECURSIVE SortPresented(_)
SortPresented(seq) ==
  IF seq = << >> THEN << >>
  ELSE InsertPresented(SortPresented(SubSeq(seq, 1, Len(seq) - 1)), seq[Len(seq)])

\* rerankWithMMR whose selection loop never stops at the limit.
rerankWithMMRUnbounded(candidates, limit, lambda) ==
  IF Len(candidates) <= limit THEN candidates
  ELSE SortPresented(MmrSelect(SortByScoreDesc(candidates), << >>, Len(candidates), lambda))

rerankWithMMR(candidates, limit, lambda) ==
  IF Len(candidates) <= limit THEN candidates
  ELSE SortPresented(MmrSelect(SortByScoreDesc(candidates), << >>, limit, lambda))

(***************************************************************************)
(* index.ts: recallScored.  opts = [limit, recallLimit, scope].            *)
(***************************************************************************)
dynamicRecallLimit(total, preferred) ==
  IF preferred # NoNumber /\ preferred > 0 THEN preferred
  ELSE IF total > 50000 THEN 200
  ELSE IF total > 5000 THEN 100
  ELSE 50

\* loadSiblingChunks without the chunk_index BETWEEN condition.
loadSiblingChunksAnyIndex(st, parentId, chunkIndex, window) ==
  LET ids == {id \in DOMAIN st.rec : st.rec[id].parentId = parentId}
  IN SortByKey(IdsAsc(ids), [id \in ids |-> st.rec[id].chunkIndex])

loadSiblingChunks(st, parentId, chunkIndex, window) ==
  LET lo == Max(0, chunkIndex - window)
      hi == chunkIndex + window
      ids == {id \in DOMAIN st.rec :
                /\ st.rec[id].parentId = parentId
                /\ st.rec[id].chunkIndex >= lo
                /\ st.rec[id].chunkIndex <= hi}
  IN SortByKey(IdsAsc(ids), [id \in ids |-> st.rec[id].chunkIndex])

SiblingOf(item, sibling) ==
  [m |-> sibling,
   vectorScore |-> Max(0, item.vectorScore - (8 * SCALE) \div 100),
   lexicalScore |-> Max(0, item.lexicalScore - (5 * SCALE) \div 100),
   recencyScore |-> item.recencyScore,
   importanceScore |-> item.importanceScore,
   score |-> Max(0, item.score - SCALE \div 10)]

RECURSIVE AddSiblings(_, _, _, _)
AddSiblings(st, out, item, siblings) ==
  IF siblings = << >> THEN out
  ELSE LET sid == Head(siblings)
           has == \E i \in 1..Len(out) : out[i].m.id = sid
       IN AddSiblings(st, IF has THEN out ELSE Append(out, SiblingOf(item, st.rec[sid])),
                      item, Tail(siblings))

RECURSIVE ExpandFrom(_, _, _, _, _)
ExpandFrom(st, scored, i, out, window) ==
  IF i > Len(scored) THEN out
  ELSE ExpandFrom(st, scored, i + 1,
                  AddSiblings(st, out, scored[i],
                              loadSiblingChunks(st, scored[i].m.parentId, scored[i].m.chunkIndex, window)),
                  window)

expandSiblings(st, scored, window) ==
  IF Len(scored) = 0 THEN scored ELSE ExpandFrom(st, scored, 1, scored, window)

ScoredIds(scored) == [i \in 1..Len(scored) |-> scored[i].m.id]

\* index.ts 147-151: the second rerank, the metric bump and the return value.
RecallReturn(st, final, now) ==
  [err |-> "",
   final |-> final,
   st |-> IF Len(final) = 0 THEN st
          ELSE bumpRecallMetrics(st, ScoredIds(final), (4 * SCALE) \div 100, now)]

\* index.ts 139-148: scoring, truncation, rerank and sibling expansion.
RecallRank(st, query, queryEmbedding, candidateIds, lexicalIds, limit, recallLimit, now) ==
  LET ids == loadMemoriesByIds(st, candidateIds)
      memories == [i \in 1..Len(ids) |-> st.rec[ids[i]]]
      scored == Take(SortByScoreDesc(scoreCandidates(query, queryEmbedding, memories,
                                                      Range(lexicalIds), now)), recallLimit)
      reranked == rerankWithMMR(scored, limit, LAMBDA_PCT)
      expanded == expandSiblings(st, reranked, 1)
  IN RecallReturn(st, rerankWithMMR(expanded, limit, LAMBDA_PCT), now)

\* index.ts 126-138: one ANN and one FTS search per expanded query.
RecallSearch(st, query, scope, queries, embeddings, limit, recallLimit, now) ==
  LET perBranchLimit == Max(recallLimit, limit * 8)
      vectorIds == Uniq(Flatten([i \in 1..Len(queries) |->
                          searchVectorIds(st, embeddings[i], perBranchLimit, scope)]))
      lexicalIds == Uniq(Flatten([i \in 1..Len(queries) |->
                          searchFtsIds(st, queries[i], perBranchLimit)]))
      queryEmbedding == IF Len(embeddings) > 0 THEN embeddings[1] ELSE embedText(query)
  IN RecallRank(st, query, queryEmbedding, Uniq(vectorIds \o lexicalIds), lexicalIds,
                limit, recallLimit, now)

RecallExpanded(st, query, scope, queries, limit, recallLimit, now) ==
  RecallSearch(st, query, scope, queries, embedTexts(queries), limit, recallLimit, now)

\* index.ts 123: an error thrown by expandQuery ends the call.
RecallQueries(st, query, opts, queries, now) ==
  IF queries.err # "" THEN [err |-> queries.err, final |-> << >>, st |-> st]
  ELSE RecallExpanded(st, query, opts.scope, queries.val, OrDefault(opts.limit, DEFAULT_LIMIT),
                      dynamicRecallLimit(countMemories(st, opts.scope), opts.recallLimit), now)

recallScored(st, query, opts, now) == RecallQueries(st, query, opts, expandQuery(query), now)

(***************************************************************************)
(* index.ts: buildContext.  A block is [score, text]; its text             *)
(* "- (kind/scope|score=X.XXX) merged" is kept as [kind, scope, shown,     *)
(* merged], shown the score in thousandths as toFixed(3) rounds it; the    *)
(* value returned is the sequence of texts that join("\n") puts together.  *)
(***************************************************************************)
RECURSIVE CharsBetween(_, _, _)
CharsBetween(text, lo, hi) ==
  IF lo > hi THEN 0
  ELSE IF lo = hi THEN Len(text[lo])
  ELSE CharsBetween(text, lo, (lo + hi) \div 2) + CharsBetween(text, (lo + hi) \div 2 + 1, hi)

\* The length of a text of words separated by single spaces.
TextLength(text) ==
  IF text = << >> THEN 0 ELSE CharsBetween(text, 1, Len(text)) + Len(text) - 1

toFixed3(score) == (score * 1000 + SCALE \div 2) \div SCALE
FixedLength(shown) == IF shown < 10000 THEN 5 ELSE 6

BlockLength(text) ==
  Len("- (") + Len(text.kind) + Len("/") + Len(text.scope) + Len("|score=")
    + FixedLength(text.shown) + Len(") ") + TextLength(text.merged)

MaxOfScores(members) ==
  CHOOSE x \in {members[i].score : i \in 1..Len(members)} :
    \A i \in 1..Len(members) : x >= members[i].score

RECURSIVE JoinContents(_)
JoinContents(chunks) ==
  IF chunks = << >> THEN << >> ELSE Head(chunks).m.content \o JoinContents(Tail(chunks))

GroupBlock(members) ==
  [score |-> MaxOfScores(members),
   text |-> [kind |-> members[1].m.kind,
             scope |-> members[1].m.scope,
             shown |-> toFixed3(MaxOfScores(members)),
             merged |-> JoinContents(SortByKey(members,
                                               [x \in Range(members) |-> x.m.chunkIndex]))]]

GroupedBlocks(memories, parents) ==
  [i \in 1..Len(parents) |->
     GroupBlock(SelectSeq(memories, LAMBDA x : x.m.parentId = parents[i]))]

SortBlocks(blocks) == SortByKey(blocks, [b \in Range(blocks) |-> 0 - b.score])

parentBlocks(memories) ==
  SortBlocks(GroupedBlocks(memories,
                           Uniq([i \in 1..Len(memories) |-> memories[i].m.parentId])))

\* The filling loop of buildContext that skips a block over the budget and
\* goes on to the next one.
RECURSIVE FillPartsSkipping(_, _, _, _)
FillPartsSkipping(blocks, parts, total, maxChars) ==
  IF blocks = << >> THEN parts
  ELSE IF total + BlockLength(Head(blocks).text) > maxChars
       THEN FillPartsSkipping(Tail(blocks), parts, total, maxChars)
  ELSE FillPartsSkipping(Tail(blocks), Append(parts, Head(blocks).text),
                         total + BlockLength(Head(blocks).text), maxChars)

RECURSIVE FillParts(_, _, _, _)
FillParts(blocks, parts, total, maxChars) ==
  IF blocks = << >> THEN parts
  ELSE IF total + BlockLength(Head(blocks).text) > maxChars THEN parts
  ELSE FillParts(Tail(blocks), Append(parts, Head(blocks).text),
                 total + BlockLength(Head(blocks).text), maxChars)

ContextOf(recalled, maxChars) ==
  [st |-> recalled.st,
   memories |-> recalled.final,
   parts |-> IF Len(recalled.final) = 0 THEN << >>
             ELSE FillParts(parentBlocks(recalled.final), << >>, 0, maxChars)]

buildContext(st, query, limit, maxChars, now) ==
  ContextOf(recallScored(st, query,
                         [limit |-> limit, recallLimit |-> Max(30, limit * 6),
                          scope |-> Undefined], now),
            maxChars)

(***************************************************************************)
(* classifier.ts: inferKindByEmbedding.  `learned` is learnedPrototypes,   *)
(* kind -> sequence of vectors; the result carries the queues afterwards.  *)
(***************************************************************************)
KINDS == <<"identity", "task", "knowledge", "reference", "note">>
\* A classifier that never falls back to unclassified.
NoConfidenceFallback == 0 * SCALE
CLASSIFY_CONFIDENCE_FALLBACK == (28 * SCALE) \div 100
LEARNED_PROTOTYPE_MIN_CONFIDENCE == (93 * SCALE) \div 100
PROTOTYPE_WEIGHT == 90
DENSITY_WEIGHT == 10
MAX_LEARNED_PROTOTYPES_PER_KIND == 64
KIND_NEIGHBOR_LIMIT == 20

KIND_PROTOTYPES(kind) ==
  CASE kind = "identity" ->
         << <<"i", "am", "roy">>, <<"my", "name", "is", "roy">>, <<"my", "profile">>,
            <<"about", "me">>, <<"i", "like", "coffee">>, <<"i", "prefer", "dark", "mode">>,
            <<"i", "enjoy", "coding", "at", "night">>, <<"i", "usually", "work", "late">>,
            <<"i", "often", "use", "typescript">> >>
    [] kind = "task" ->
         << <<"todo", "implement", "recall">>, <<"fix", "bug">>, <<"need", "to", "deploy">>,
            <<"need", "to", "finish", "this", "task">>, <<"next", "step", "is">>,
            <<"plan", "to", "build">>, <<"action", "item">>, <<"deadline", "is", "tomorrow">>,
            <<"ship", "this", "feature">> >>
    [] kind = "knowledge" ->
         << <<"tokyo", "is", "capital", "of", "japan">>, <<"eigen", "is", "c", "library">>,
            <<"sqlite", "is", "database">>,
            <<"typescript", "is", "a", "typed", "superset", "of", "javascript">>,
            <<"the", "earth", "orbits", "the", "sun">>,
            <<"covariance", "measures", "how", "variables", "move", "together">> >>
    [] kind = "reference" ->
         << <<"documentation", "at", "https">>, <<"api", "spec">>, <<"according", "to", "docs">>,
            <<"see", "docs", "at">>, <<"official", "reference", "manual">>,
            <<"readme", "and", "documentation">>, <<"rfc", "specification">>,
            <<"see", "docs", "at", "https", "example", "com", "spec">>,
            <<"reference", "link", "for", "api", "usage">>,
            <<"specification", "and", "documentation", "reference">>,
            <<"this", "is", "a", "documentation", "reference">> >>
    [] kind = "note" ->
         << <<"quick", "note">>, <<"idea">>, <<"draft">>, <<"scratch", "note">>,
            <<"temporary", "memo">>, <<"remember", "this">>, <<"thought">>,
            <<"quick", "note", "refactor", "retriever">>,
            <<"note", "to", "self", "about", "implementation", "details">>,
            <<"draft", "idea", "for", "future", "changes">>,
            <<"personal", "short", "note", "for", "later">> >>

NoLearnedPrototypes == [k \in Range(KINDS) |-> << >>]
getPrototypeEmbeddings == [k \in Range(KINDS) |-> embedTexts(KIND_PROTOTYPES(k))]

MaxOf(S) == CHOOSE x \in S : \A y \in S : x >= y

RECURSIVE SumOver(_, _)
SumOver(f, S) ==
  IF S = {} THEN 0
  ELSE LET x == CHOOSE y \in S : TRUE IN f[x] + SumOver(f, S \ {x})

prototypeScore(memoryEmbedding, kind, prototypes, learned) ==
  LET all == prototypes[kind] \o learned[kind]
  IN IF Len(all) = 0 THEN 0
     ELSE Max(0, MaxOf({Max(0, cosine(memoryEmbedding, all[i])) : i \in 1..Len(all)}))

searchKindNeighbors(st, queryEmbedding, limit, scope) ==
  IF ~st.ann THEN << >>
  ELSE LET hits == searchNearest(st, queryEmbedding, limit, scope)
           kept == SelectSeq(hits, LAMBDA id : id \in DOMAIN st.rec)
           norm == ISqrt(DotFrom(queryEmbedding.v, queryEmbedding.v, 1))
           dist(id) == ISqrt(Dist2From(queryEmbedding.v, st.vec[id].embedding.v, 1))
       IN [i \in 1..Len(kept) |->
             [kind |-> st.rec[kept[i]].kind,
              score |-> (SCALE * norm) \div (norm + Max(0, dist(kept[i])))]]

densityScore(neighbors) ==
  [k \in Range(KINDS) |->
     LET mine == {i \in 1..Len(neighbors) : neighbors[i].kind = k}
         weightedSum == SumOver([i \in mine |-> neighbors[i].score], mine)
     IN IF Cardinality(mine) > 0 THEN weightedSum \div Cardinality(mine) ELSE 0]

\* Learning without eviction.
LearnUnbounded(learned, kind, memoryEmbedding) ==
  [learned EXCEPT ![kind] = Append(@, memoryEmbedding)]

Learn(learned, kind, memoryEmbedding) ==
  [learned EXCEPT ![kind] =
     Append(IF Len(@) >= MAX_LEARNED_PROTOTYPES_PER_KIND THEN Tail(@) ELSE @, memoryEmbedding)]

FallbackBest(combined) ==
  CHOOSE i \in 1..Len(KINDS) :
    /\ \A j \in 1..Len(KINDS) : combined[KINDS[i]] >= combined[KINDS[j]]
    /\ \A j \in 1..(i - 1) : combined[KINDS[j]] < combined[KINDS[i]]

inferKindByEmbedding(st, memoryEmbedding, scope, learned) ==
  IF memoryEmbedding.len = 0
  THEN [kind |-> "unclassified", confidence |-> 0, learned |-> learned]
  ELSE LET prototypes == getPrototypeEmbeddings
           neighbors == searchKindNeighbors(st, memoryEmbedding, KIND_NEIGHBOR_LIMIT, scope)
           density == densityScore(neighbors)
           prototypeOnly == [k \in Range(KINDS) |->
                               prototypeScore(memoryEmbedding, k, prototypes, learned)]
           topTwo == SortByKey(KINDS, [k \in Range(KINDS) |-> 0 - prototypeOnly[k]])
           top == prototypeOnly[topTwo[1]]
           margin == top - prototypeOnly[topTwo[2]]
       IN IF top >= (52 * SCALE) \div 100 /\ margin >= (45 * SCALE) \div 1000
          THEN [kind |-> topTwo[1], confidence |-> top,
                learned |-> IF top > LEARNED_PROTOTYPE_MIN_CONFIDENCE
                            THEN Learn(learned, topTwo[1], memoryEmbedding) ELSE learned]
          ELSE LET gated(k) == IF prototypeOnly[k] >= (35 * SCALE) \div 100
                               THEN density[k] ELSE density[k] \div 4
                   combined == [k \in Range(KINDS) |->
                                  (PROTOTYPE_WEIGHT * prototypeOnly[k]
                                   + DENSITY_WEIGHT * gated(k)) \div 100]
                   bestKind == KINDS[FallbackBest(combined)]
                   confidence == combined[bestKind]
                   finalKind == IF confidence < CLASSIFY_CONFIDENCE_FALLBACK
                                THEN "unclassified" ELSE bestKind
               IN [kind |-> finalKind, confidence |-> confidence,
                   learned |-> IF finalKind # "unclassified"
                                  /\ confidence > LEARNED_PROTOTYPE_MIN_CONFIDENCE
                               THEN Learn(learned, finalKind, memoryEmbedding) ELSE learned]

(***************************************************************************)
(* The engine as a state machine: one process, one database.               *)
(***************************************************************************)
DefaultOptions ==
  [kind |-> Undefined, scope |-> Undefined, importance |-> NoNumber,
   validityScore |-> NoNumber, isNegative |-> FALSE]
RememberOptions ==
  {DefaultOptions,
   [DefaultOptions EXCEPT !.kind = "auto"]}
FaultPoints == {0, 2}
DefaultRecall == [limit |-> NoNumber, recallLimit |-> NoNumber, scope |-> Undefined]
RecallOptions ==
  {DefaultRecall, [DefaultRecall EXCEPT !.limit = 1], [DefaultRecall EXCEPT !.scope = "session"]}
Ids == 1..MaxUuid
Procs == {1, 2}

\* The values of annStatus.message under which initializeAnn has loaded
\* sqlite-vec and created memory_vec (query.ts 53-63, db.ts 193).
VecTableMessages == {"sqlite_vec_loaded", "ann_sync_failed"}

Store == [rec |-> memory_records, vec |-> memory_vec, fts |-> memory_fts,
          ann |-> annStatus.enabled, vecOn |-> annStatus.message \in VecTableMessages,
          ftsOn |-> ftsTable]

getRagStorageStatus == [ann |-> annStatus, corpusSize |-> countMemories(Store, Undefined)]

\* What the last completed call was and returned: the error it raised ("" for
\* none), whether its text was empty, whether it had several chunks, whether a
\* duplicate was found, and the ids a recall returned.
NoOp == [op |-> "none", err |-> "", empty |-> FALSE, multi |-> FALSE, dup |-> FALSE,
         ids |-> << >>]
\* The frame of one remember call in flight (index.ts 49-113): its position and locals.
IdleCall == [pc |-> "idle", content |-> << >>, now |-> 0, index |-> 0, rows |-> << >>,
             firstExisting |-> NullId, vectorIds |-> << >>, duplicate |-> NullId, err |-> ""]

\* The arguments and the return value of a direct call of one exported
\* function (none in the engine's own behaviours).
NoArgs == [fn |-> "none"]
NoReturn == [done |-> FALSE]

InitEngine ==
  /\ dbSingleton = FALSE
  /\ annStatus = [enabled |-> FALSE, message |-> "uninitialized"]
  /\ ftsTable = FALSE
  /\ memory_records = EmptyTable
  /\ memory_vec = EmptyTable
  /\ memory_fts = {}
  /\ clock = 0
  /\ nextUuid = 1
  /\ lastOp = NoOp
  /\ calls = [p \in Procs |-> IdleCall]

Init ==
  /\ InitEngine
  /\ args = NoArgs
  /\ ret = NoReturn

SetStore(st) ==
  /\ memory_records' = st.rec
  /\ memory_vec' = st.vec
  /\ memory_fts' = st.fts

initializeAnn(loaded) ==
  IF loaded THEN [enabled |-> TRUE, message |-> "sqlite_vec_loaded"]
  ELSE [enabled |-> FALSE, message |-> "sqlite_vec_unavailable"]

\* getDb() on its first call: ensureSchema, initializeAnn, syncAnnIndex.
\* syncFails: the SELECT of syncAnnIndex throws, and its catch (db.ts 192-194)
\* turns the status to "ann_sync_failed" with memory_vec left as it was.
InitializeRagStorage(vecLoads, ftsCreates, syncFails) ==
  /\ ~dbSingleton
  /\ syncFails => vecLoads
  /\ dbSingleton' = TRUE
  /\ ftsTable' = ftsCreates
  /\ annStatus' = IF syncFails THEN [enabled |-> FALSE, message |-> "ann_sync_failed"]
                  ELSE initializeAnn(vecLoads)
  /\ SetStore(IF syncFails THEN Store
              ELSE syncAnnIndex([Store EXCEPT !.ann = vecLoads, !.vecOn = vecLoads,
                                              !.ftsOn = ftsCreates]))
  /\ UNCHANGED <<args, ret, clock, nextUuid, lastOp, calls>>

\* The state after a remember or rememberConversation call that returned r.
Remembered(r, op, empty, multi) ==
  /\ nextUuid + Cardinality(r.news) - 1 <= MaxUuid
  /\ SetStore(r.st)
  /\ nextUuid' = nextUuid + Cardinality(r.news)
  /\ lastOp' = [NoOp EXCEPT !.op = op, !.err = r.err, !.empty = empty, !.multi = multi,
                            !.dup = r.dup]

Remember(content, opts, fault) ==
  /\ dbSingleton
  /\ Remembered(remember(Store, content, opts, clock, nextUuid, fault), "remember",
                content = Blank, Len(chunkText(content, CHUNK_TOKENS, OVERLAP_TOKENS)) > 1)
  /\ UNCHANGED <<args, ret, dbSingleton, annStatus, ftsTable, clock, calls>>

ConversationOptions ==
  [kind |-> "conversation", scope |-> "session", importance |-> (6 * SCALE) \div 10,
   validityScore |-> NoNumber, isNegative |-> FALSE]

\* index.ts 206: the assistant turn, remembered after the user turn returned first.
RememberAnswer(first, answer, now, uuid) ==
  IF first.err # "" THEN first
  ELSE [remember(first.st, <<"assistant">> \o answer, ConversationOptions, now,
                 uuid + Cardinality(first.news), 0)
          EXCEPT !.news = first.news \cup @, !.dup = first.dup \/ @]

rememberConversation(st, question, answer, now, uuid) ==
  RememberAnswer(remember(st, <<"user">> \o question, ConversationOptions, now, uuid, 0),
                 answer, now, uuid)

RememberConversation(question, answer) ==
  /\ dbSingleton
  /\ Remembered(rememberConversation(Store, question, answer, clock, nextUuid),
                "rememberConversation", FALSE, FALSE)
  /\ UNCHANGED <<args, ret, dbSingleton, annStatus, ftsTable, clock, calls>>

\* The state after a recallScored call that returned r; recallScored has no
\* throw statement of its own, r.err is what expandQuery raised.
Recalled(r, query) ==
  /\ \A i \in 1..Len(r.final) : r.final[i].m.recallCount < MaxRecallCount
  /\ SetStore(r.st)
  /\ lastOp' = [NoOp EXCEPT !.op = "recall", !.err = r.err, !.empty = (query = Blank),
                            !.ids = ScoredIds(r.final)]

RecallScored(query, opts) ==
  /\ dbSingleton
  /\ Recalled(recallScored(Store, query, opts, clock), query)
  /\ UNCHANGED <<args, ret, dbSingleton, annStatus, ftsTable, clock, nextUuid, calls>>

\* forget(id): the call of deleteMemory (db.ts 538-547) that removes the record.
DeleteMemory(id) ==
  /\ dbSingleton
  /\ LET r == deleteMemory(Store, id)
     IN /\ SetStore(r.st)
        /\ lastOp' = [NoOp EXCEPT !.op = "deleteMemory", !.err = r.err]
  /\ UNCHANGED <<args, ret, dbSingleton, annStatus, ftsTable, clock, nextUuid, calls>>

MarkMemoryInvalid(id, score) ==
  /\ dbSingleton
  /\ SetStore(markMemoryInvalid(Store, id, score, clock))
  /\ lastOp' = [NoOp EXCEPT !.op = "markMemoryInvalid"]
  /\ UNCHANGED <<args, ret, dbSingleton, annStatus, ftsTable, clock, nextUuid, calls>>

Tick ==
  /\ clock < MaxClock
  /\ clock' = clock + 1
  /\ UNCHANGED <<args, ret, dbSingleton, annStatus, ftsTable, memory_records, memory_vec,
                 memory_fts, nextUuid, lastOp, calls>>

\* The sequential engine: one caller, every call runs to completion.
Next ==
  \/ \E vecLoads \in BOOLEAN, ftsCreates \in BOOLEAN, syncFails \in BOOLEAN :
       InitializeRagStorage(vecLoads, ftsCreates, syncFails)
  \/ \E content \in {Blank, Freedom, LongDoc}, opts \in RememberOptions, fault \in FaultPoints :
       Remember(content, opts, fault)
  \/ RememberConversation(Freedom, DbTuning)
  \/ \E query \in {Blank, Freedom} : RecallScored(query, DefaultRecall)
  \/ \E id \in Ids : DeleteMemory(id)
  \/ \E id \in Ids : MarkMemoryInvalid(id, SCALE \div 5)

Spec == Init /\ [][Next]_vars

\* The engine under a ticking millisecond clock: remember and recall only.
NextClock ==
  \/ \E vecLoads \in BOOLEAN, ftsCreates \in BOOLEAN, syncFails \in BOOLEAN :
       InitializeRagStorage(vecLoads, ftsCreates, syncFails)
  \/ \E content \in {Freedom, LongDoc} : Remember(content, DefaultOptions, 0)
  \/ \E query \in Queries, opts \in RecallOptions : RecallScored(query, opts)
  \/ Tick

SpecClock == Init /\ [][NextClock]_vars

(***************************************************************************)
(* remember as interleaved steps.  Each action is the code between two     *)
(* awaits of remember (index.ts 49-113) and of findSemanticDuplicate       *)
(* (db.ts 439-458); the synchronous better-sqlite3 calls inside one step   *)
(* are atomic, other calls may run between steps.                          *)
(***************************************************************************)
FrameChunks(p) == chunkText(calls[p].content, CHUNK_TOKENS, OVERLAP_TOKENS)
FrameChunk(p) == FrameChunks(p)[calls[p].index + 1]
FrameEmbedding(p) == embedText(FrameChunk(p))
Finished(p) == calls[p].pc \in {"done", "failed"}

\* index.ts 58-65: trim, empty check, Date.now(), start of chunkText.
RememberCall(p, content) ==
  /\ dbSingleton
  /\ calls[p].pc = "idle"
  /\ calls' = [calls EXCEPT ![p] =
                 IF content = << >>
                 THEN [IdleCall EXCEPT !.pc = "failed", !.err = "empty_memory_content"]
                 ELSE [IdleCall EXCEPT !.pc = "embed", !.content = content, !.now = clock]]
  /\ UNCHANGED <<args, ret, dbSingleton, annStatus, ftsTable, memory_records, memory_vec, memory_fts,
                 clock, nextUuid, lastOp>>

\* index.ts 66-70: chunks resolved, embedTexts awaited.
EmbedChunks(p) ==
  /\ calls[p].pc = "embed"
  /\ calls' = [calls EXCEPT ![p] =
                 IF Len(FrameChunks(p)) = 0
                 THEN [@ EXCEPT !.pc = "failed", !.err = "empty_memory_chunks"]
                 ELSE [@ EXCEPT !.pc = "probe"]]
  /\ UNCHANGED <<args, ret, dbSingleton, annStatus, ftsTable, memory_records, memory_vec, memory_fts,
                 clock, nextUuid, lastOp>>

\* index.ts 77-78 and db.ts 445: estimateTokenCount, then the ANN probe.
ProbeAnn(p) ==
  /\ calls[p].pc = "probe"
  /\ calls' = [calls EXCEPT ![p] =
                 IF FrameEmbedding(p).null \/ FrameEmbedding(p).len = 0
                 THEN [@ EXCEPT !.pc = "decide", !.duplicate = NullId]
                 ELSE [@ EXCEPT !.pc = "load",
                                !.vectorIds = searchVectorIds(Store, FrameEmbedding(p),
                                                DEDUP_CANDIDATE_LIMIT,
                                                ScopeOrDefault(DefaultOptions.scope))]]
  /\ UNCHANGED <<args, ret, dbSingleton, annStatus, ftsTable, memory_records, memory_vec, memory_fts,
                 clock, nextUuid, lastOp>>

\* db.ts 446-457: the candidates are loaded and compared.
LoadCandidates(p) ==
  /\ calls[p].pc = "load"
  /\ calls' = [calls EXCEPT ![p] =
                 [@ EXCEPT !.pc = "decide",
                           !.duplicate = DuplicateAmong(Store, FrameEmbedding(p),
                                                        calls[p].vectorIds, DEDUP_THRESHOLD)]]
  /\ UNCHANGED <<args, ret, dbSingleton, annStatus, ftsTable, memory_records, memory_vec, memory_fts,
                 clock, nextUuid, lastOp>>

AfterChunk(p) == IF calls[p].index + 1 >= Len(FrameChunks(p)) THEN "insert" ELSE "probe"

\* index.ts 79-88: the chunk has a duplicate, merge into it.
MergeChunk(p) ==
  /\ calls[p].pc = "decide"
  /\ calls[p].duplicate # NullId
  /\ LET m == mergeIntoExistingMemory(Store, calls[p].duplicate,
                 MergeIncoming(FrameChunk(p), FrameEmbedding(p),
                               estimateTokenCount(FrameChunk(p)), DefaultOptions, calls[p].now))
     IN /\ SetStore(m.st)
        /\ calls' = [calls EXCEPT ![p] =
                       IF m.err # "" THEN [@ EXCEPT !.pc = "failed", !.err = m.err]
                       ELSE [@ EXCEPT !.pc = AfterChunk(p), !.index = @ + 1,
                                      !.firstExisting = IF @ = NullId THEN calls[p].duplicate
                                                        ELSE @]]
  /\ UNCHANGED <<args, ret, dbSingleton, annStatus, ftsTable, clock, nextUuid, lastOp>>

\* index.ts 89-106: no duplicate, the chunk becomes a pending row.
PushRow(p) ==
  /\ calls[p].pc = "decide"
  /\ calls[p].duplicate = NullId
  /\ nextUuid <= MaxUuid
  /\ LET parentId == IF calls[p].rows = << >> THEN nextUuid ELSE calls[p].rows[1].parentId
         row == NewRow(nextUuid, parentId, calls[p].index, FrameChunk(p), FrameEmbedding(p),
                       estimateTokenCount(FrameChunk(p)), DefaultOptions, calls[p].now)
     IN calls' = [calls EXCEPT ![p] =
                    [@ EXCEPT !.pc = AfterChunk(p), !.index = @ + 1, !.rows = Append(@, row)]]
  /\ nextUuid' = nextUuid + 1
  /\ UNCHANGED <<args, ret, dbSingleton, annStatus, ftsTable, memory_records, memory_vec, memory_fts,
                 clock, lastOp>>

\* index.ts 109-112: insertMemoryRows and the return value.
InsertRows(p) ==
  /\ calls[p].pc = "insert"
  /\ LET ins == insertMemoryRows(Store, calls[p].rows, 0)
     IN /\ SetStore(ins.st)
        /\ calls' = [calls EXCEPT ![p] =
                       IF ins.err # "" THEN [@ EXCEPT !.pc = "failed", !.err = ins.err]
                       ELSE IF calls[p].rows = << >> /\ calls[p].firstExisting = NullId
                            THEN [@ EXCEPT !.pc = "failed", !.err = "remember_noop"]
                       ELSE [@ EXCEPT !.pc = "done"]]
  /\ UNCHANGED <<args, ret, dbSingleton, annStatus, ftsTable, clock, nextUuid, lastOp>>

\* Two callers, each issuing one remember whose steps interleave.
NextConc ==
  \/ \E vecLoads \in BOOLEAN, ftsCreates \in BOOLEAN, syncFails \in BOOLEAN :
       InitializeRagStorage(vecLoads, ftsCreates, syncFails)
  \/ \E p \in Procs, content \in {Freedom, Liberty} : RememberCall(p, content)
  \/ \E p \in Procs : EmbedChunks(p)
  \/ \E p \in Procs : ProbeAnn(p)
  \/ \E p \in Procs : LoadCandidates(p)
  \/ \E p \in Procs : MergeChunk(p)
  \/ \E p \in Procs : PushRow(p)
  \/ \E p \in Procs : InsertRows(p)

SpecConc == Init /\ [][NextConc]_vars

\* The two interleaved remember calls, together with recall, markMemoryInvalid
\* and the passing of time.
NextInterleaved ==
  \/ NextConc
  \/ RecallScored(Freedom, DefaultRecall)
  \/ \E id \in Ids : MarkMemoryInvalid(id, SCALE \div 5)
  \/ Tick

SpecInterleaved == Init /\ [][NextInterleaved]_vars

\* The engine under callers that pass numeric importance, validityScore and
\* score values below, inside and above [0, 1].
ScoreInputs == {0 - (SCALE \div 2), SCALE \div 2, (3 * SCALE) \div 2}
RangeOptions ==
  {[DefaultOptions EXCEPT !.importance = i, !.validityScore = v] : i, v \in ScoreInputs}
NextRange ==
  \/ \E vecLoads \in BOOLEAN : InitializeRagStorage(vecLoads, TRUE, FALSE)
  \/ \E content \in {Freedom, Liberty}, opts \in RangeOptions : Remember(content, opts, 0)
  \/ RecallScored(Freedom, DefaultRecall)
  \/ \E id \in Ids, score \in ScoreInputs : MarkMemoryInvalid(id, score)

SpecRange == Init /\ [][NextRange]_vars

\* The engine under remember calls alone, in two scopes, on short texts and
\* on a text of one repeated word whose two chunks are the same 220 words.
RepeatDoc == [i \in 1..LongLen |-> "w"]
ScopedOptions == {DefaultOptions, [DefaultOptions EXCEPT !.scope = "session"]}
NextDedup ==
  \/ \E vecLoads \in BOOLEAN, ftsCreates \in BOOLEAN :
       InitializeRagStorage(vecLoads, ftsCreates, FALSE)
  \/ \E content \in {Freedom, Liberty, DbTuning, RepeatDoc}, opts \in ScopedOptions :
       Remember(content, opts, 0)
  \/ Tick

SpecDedup == Init /\ [][NextDedup]_vars

\* The engine with records in two scopes and recall restricted to a scope.
Scopes == {"global", "session"}
ScopedRecall(scope) == [DefaultRecall EXCEPT !.scope = scope]
NextScoped ==
  \/ \E vecLoads \in BOOLEAN, ftsCreates \in BOOLEAN :
       InitializeRagStorage(vecLoads, ftsCreates, FALSE)
  \/ \E content \in {Freedom, DbTuning, LongDoc}, opts \in ScopedOptions :
       Remember(content, opts, 0)
  \/ \E query \in {Freedom, DbTuning}, scope \in Scopes :
       RecallScored(query, ScopedRecall(scope))

SpecScoped == Init /\ [][NextScoped]_vars

TypeOK ==
  /\ dbSingleton \in BOOLEAN
  /\ DOMAIN memory_records \subseteq Ids
  /\ DOMAIN memory_vec \subseteq Ids
  /\ clock \in 0..MaxClock

(***************************************************************************)
(* Direct calls of the exported functions: `args` holds the arguments of   *)
(* one call, `ret` the value it returned.                                  *)
(***************************************************************************)
engine == <<dbSingleton, annStatus, ftsTable, memory_records, memory_vec,
            memory_fts, clock, nextUuid, lastOp, calls>>

Returned(fn, val) ==
  /\ args.fn = fn
  /\ ~ret.done
  /\ ret' = [done |-> TRUE, val |-> val]
  /\ UNCHANGED <<engine, args>>

\* The distinct-element sequences of length at most n over S.
DistinctSeqs(S, n) ==
  {s \in UNION {[1..k -> S] : k \in 0..n} : \A i, j \in 1..Len(s) : s[i] = s[j] => i = j}

\* retrieval.test.ts: record(id, content, embedding) and a scored candidate.
Vec3(x, y, z) == [null |-> FALSE, len |-> 3, v |-> <<x, y, z>>]
record(id, content, embedding) ==
  [id |-> id, parentId |-> id, chunkIndex |-> 0, content |-> content,
   embedding |-> embedding, kind |-> "knowledge", scope |-> "global",
   importance |-> (6 * SCALE) \div 10, tokenCount |-> 4, recallCount |-> 0,
   lastRecalledAt |-> NullTime, validityScore |-> SCALE, isNegative |-> FALSE,
   createdAt |-> 3, updatedAt |-> 3]
Scored(m, score, updatedAt) ==
  [m |-> [m EXCEPT !.updatedAt = updatedAt], vectorScore |-> SCALE, lexicalScore |-> SCALE,
   recencyScore |-> SCALE, importanceScore |-> SCALE, score |-> score]

\* The three candidates of "rerankWithMMR keeps diversity", and a fourth that
\* ties with the first on score.
CandA == Scored(record(1, <<"a">>, Vec3(100, 0, 0)), (99 * SCALE) \div 100, 3)
CandB == Scored(record(2, <<"b">>, Vec3(99, 1, 0)), (97 * SCALE) \div 100, 2)
CandC == Scored(record(3, <<"c">>, Vec3(0, 100, 0)), (94 * SCALE) \div 100, 1)
CandD == Scored(record(4, <<"d">>, Vec3(0, 0, 100)), (99 * SCALE) \div 100, 3)

MaxCandidates == 4
MaxLimit == 3

InitMMR ==
  /\ InitEngine
  /\ args \in [fn : {"rerankWithMMR"},
               candidates : DistinctSeqs({CandA, CandB, CandC, CandD}, MaxCandidates),
               limit : 0..MaxLimit]
  /\ ret = NoReturn

RerankWithMMR == Returned("rerankWithMMR", rerankWithMMR(args.candidates, args.limit, LAMBDA_PCT))

SpecMMR == InitMMR /\ [][RerankWithMMR]_vars

\* scoreCandidates on three copies of one record: validityScore lo, validityScore
\* hi, and validityScore hi with isNegative set.
ValidityScores == {0, SCALE \div 5, SCALE \div 2, SCALE}
TenDaysMs == 10 * DAY_MS

InitScore ==
  /\ InitEngine
  /\ args \in [fn : {"scoreCandidates"},
               query : {Freedom, DbTuning},
               m : {record(1, Freedom, embedText(c)) : c \in {Freedom, Liberty, DbTuning}},
               lo : ValidityScores, hi : ValidityScores,
               hit : BOOLEAN,
               now : {3, 3 + TenDaysMs}]
  /\ args.lo <= args.hi
  /\ ret = NoReturn

ScoreCandidates ==
  Returned("scoreCandidates",
           scoreCandidates(args.query, embedText(args.query),
                           <<[args.m EXCEPT !.validityScore = args.lo],
                             [args.m EXCEPT !.validityScore = args.hi],
                             [args.m EXCEPT !.validityScore = args.hi, !.isNegative = TRUE]>>,
                           IF args.hit THEN {args.m.id} ELSE {}, args.now))

SpecScore == InitScore /\ [][ScoreCandidates]_vars

\* recallScored on a store that holds one document of several chunks,
\* remembered into a fresh database with ANN and FTS available.
EmptyStore == [rec |-> EmptyTable, vec |-> EmptyTable, fts |-> {}, ann |-> TRUE, vecOn |-> TRUE,
               ftsOn |-> TRUE]
ChunkedDoc(len) == [i \in 1..len |->
                      IF i = 1 THEN "alpha"
                      ELSE IF i = 181 THEN "beta"
                      ELSE IF i = 361 THEN "gamma"
                      ELSE "w"]
DocStore(a) ==
  remember(EmptyStore, ChunkedDoc(a.len),
           [DefaultOptions EXCEPT !.validityScore = a.validityScore, !.isNegative = a.isNegative],
           0, 1, 0).st
ThreeChunkLen == 500
FourChunkLen == 600

InitSiblings ==
  /\ InitEngine
  /\ args \in [fn : {"recallScored"},
               len : {ThreeChunkLen, FourChunkLen},
               validityScore : {0, SCALE}, isNegative : BOOLEAN,
               query : {<<"alpha">>, <<"beta">>, <<"gamma">>},
               limit : {1, 3}, recallLimit : {1, 2, NoNumber}]
  /\ ret = NoReturn

RecallStored ==
  Returned("recallScored",
           recallScored(DocStore(args), args.query,
                        [limit |-> args.limit, recallLimit |-> args.recallLimit,
                         scope |-> Undefined], 1).final)

SpecSiblings == InitSiblings /\ [][RecallStored]_vars

\* inferKindByEmbedding on embeddings that lie in, near and outside the plane
\* of the prototypes, over several neighbour sets and learned-prototype queues.
Embedding(v) == [null |-> FALSE, len |-> IF v = << >> THEN 0 ELSE EMBEDDING_DIM, v |-> v]
ClassifierEmbeddings ==
  {Embedding(v) : v \in {<< >>, <<65, 0>>, <<0, 65>>, <<0 - 65, 0>>, <<0, 0 - 65>>,
                         <<0 - 39, 52>>, <<39, 52>>, <<46, 46>>, <<52, 0 - 39>>,
                         <<0, 0, 65>>, <<20, 0, 62>>, <<25, 0, 60>>, <<33, 0, 56>>}}
NeighbourStores ==
  {EmptyStore, [EmptyStore EXCEPT !.ann = FALSE]}
    \cup {remember(EmptyStore, Freedom, [DefaultOptions EXCEPT !.kind = k], 0, 1, 0).st :
            k \in {"note", "knowledge", "auto"}}
LearnedQueues ==
  {NoLearnedPrototypes,
   [NoLearnedPrototypes EXCEPT !["note"] = <<Embedding(<<0, 0, 65>>)>>],
   [NoLearnedPrototypes EXCEPT !["knowledge"] =
      [i \in 1..MAX_LEARNED_PROTOTYPES_PER_KIND |-> Embedding(<<65, 0>>)]]}

InitClassify ==
  /\ InitEngine
  /\ args \in [fn : {"inferKindByEmbedding"}, memoryEmbedding : ClassifierEmbeddings,
               st : NeighbourStores, learned : LearnedQueues]
  /\ ret = NoReturn

InferKindByEmbedding ==
  Returned("inferKindByEmbedding",
           inferKindByEmbedding(args.st, args.memoryEmbedding, Undefined, args.learned))

SpecClassify == InitClassify /\ [][InferKindByEmbedding]_vars

\* A session of classifications: learnedPrototypes is module state that
\* outlives each call.  The session is taken up after k classifications of
\* <<65, 0>>, each of which learned it as knowledge, and goes on for
\* MaxClassifications calls on embeddings on both sides of the learning bar.
MaxClassifications == 3
LearnedSoFar == {0, 1, MAX_LEARNED_PROTOTYPES_PER_KIND - 1, MAX_LEARNED_PROTOTYPES_PER_KIND}
SessionEmbeddings ==
  {Embedding(v) : v \in {<< >>, <<65, 0>>, <<63, 16>>, <<60, 25>>, <<0, 65>>, <<46, 46>>}}

InitSession ==
  /\ InitEngine
  /\ args \in [fn : {"classify"}, n : {0}, memoryEmbedding : {Embedding(<< >>)},
               learned : {[NoLearnedPrototypes EXCEPT !["knowledge"] =
                             [i \in 1..k |-> Embedding(<<65, 0>>)]] : k \in LearnedSoFar}]
  /\ ret = NoReturn

Classified(r, e) ==
  /\ ret' = [done |-> TRUE, val |-> [kind |-> r.kind, confidence |-> r.confidence]]
  /\ args' = [args EXCEPT !.n = @ + 1, !.memoryEmbedding = e, !.learned = r.learned]

Classify(e) ==
  /\ args.fn = "classify"
  /\ args.n < MaxClassifications
  /\ Classified(inferKindByEmbedding(EmptyStore, e, Undefined, args.learned), e)
  /\ UNCHANGED engine

NextSession == \E e \in SessionEmbeddings : Classify(e)
SpecSession == InitSession /\ [][NextSession]_vars

(***************************************************************************)
(* embedding.ts: the query-embedding cache.  A text is the sequence of its *)
(* UTF-16 code units.  `cache` is the keys of queryEmbeddingCache in the   *)
(* Map's iteration order, which is insertion order; the value kept under a *)
(* key is the embedding of the text that first produced it.                *)
(***************************************************************************)
CACHE_LIMIT == 512

IsSpace(c) == c \in {9, 10, 32}
trim(text) ==
  LET inked == {i \in 1..Len(text) : ~IsSpace(text[i])}
  IN IF inked = {} THEN << >>
     ELSE SubSeq(text, CHOOSE i \in inked : \A j \in inked : i <= j,
                       CHOOSE i \in inked : \A j \in inked : i >= j)
toLowerCase(text) ==
  [i \in 1..Len(text) |-> IF text[i] \in 65..90 THEN text[i] + 32 ELSE text[i]]

HasKey(cache, key) == \E i \in 1..Len(cache) : cache[i] = key

\* `if (oldest)` is false for the empty string as well as for undefined.
cacheSet(cache, key) ==
  LET full == Len(cache) >= CACHE_LIMIT
      oldest == IF cache = << >> THEN << >> ELSE cache[1]
      kept == IF full /\ oldest # << >> THEN Tail(cache) ELSE cache
  IN IF HasKey(kept, key) THEN kept ELSE Append(kept, key)

\* The cache after embedText(text), and whether the call was served from it.
cachedEmbedText(cache, text) ==
  LET key == toLowerCase(trim(text))
  IN IF HasKey(cache, key) THEN [hit |-> TRUE, key |-> key, cache |-> cache]
     ELSE [hit |-> FALSE, key |-> key, cache |-> cacheSet(cache, key)]

\* A session of embedText calls, taken up after embedText on k distinct
\* one-character texts (after a blank text or not), none of which evicted
\* anything.  `recent` lists the cached keys, least recently used first.
MaxEmbedCalls == 3
Filler(i) == <<19968 + i>>
Fillers(k) == [i \in 1..k |-> Filler(i)]
EmbedInputs ==
  {<< >>, <<32>>, <<65>>, <<97>>, <<32, 97, 10>>, Filler(1), Filler(2),
   Filler(CACHE_LIMIT + 1), Filler(CACHE_LIMIT + 2)}
CachesSoFar ==
  {Fillers(k) : k \in {0, CACHE_LIMIT - 1, CACHE_LIMIT}}
    \cup {<< << >> >> \o Fillers(k) : k \in {CACHE_LIMIT - 2, CACHE_LIMIT - 1}}

InitCache ==
  /\ InitEngine
  /\ args \in {[fn |-> "embedText", n |-> 0, text |-> << >>, cache |-> c, recent |-> c] :
                 c \in CachesSoFar}
  /\ ret = NoReturn

Touch(recent, r) ==
  Append(SelectSeq(recent, LAMBDA k : k # r.key /\ HasKey(r.cache, k)), r.key)

Embedded(r, text) ==
  /\ ret' = [done |-> TRUE, val |-> [hit |-> r.hit, key |-> r.key]]
  /\ args' = [args EXCEPT !.n = @ + 1, !.text = text, !.cache = r.cache,
                          !.recent = Touch(@, r)]

EmbedText(text) ==
  /\ args.fn = "embedText"
  /\ args.n < MaxEmbedCalls
  /\ Embedded(cachedEmbedText(args.cache, text), text)
  /\ UNCHANGED engine

NextCache == \E text \in EmbedInputs : EmbedText(text)
SpecCache == InitCache /\ [][NextCache]_vars

\* buildContext on stores holding a three-chunk document and two short ones,
\* remembered in every order, over queries that rank each of them first.
ContextDocs == {ChunkedDoc(ThreeChunkLen), DbTuning, Freedom}
NextStore(r) == r.st
NextUuidAfter(r, uuid) == uuid + Cardinality(r.news)
RECURSIVE RememberAll(_, _, _)
RememberStep(r, docs, uuid) == RememberAll(NextStore(r), Tail(docs), NextUuidAfter(r, uuid))
RememberAll(st, docs, uuid) ==
  IF docs = << >> THEN st
  ELSE RememberStep(remember(st, Head(docs), DefaultOptions, 0, uuid, 0), docs, uuid)
MaxDocs == 3
ContextLimits == {1, 2, 5}
ContextBudgets == {0, 45, 100, 2400}

InitContext ==
  /\ InitEngine
  /\ args \in [fn : {"buildContext"},
               docs : DistinctSeqs(ContextDocs, MaxDocs),
               query : {<<"db">>, <<"beta">>, Freedom},
               limit : ContextLimits,
               maxChars : ContextBudgets]
  /\ ret = NoReturn

ContextReturn(c) == [memories |-> c.memories, parts |-> c.parts]

BuildContext ==
  Returned("buildContext",
           ContextReturn(buildContext(RememberAll(EmptyStore, args.docs, 1), args.query,
                                      args.limit, args.maxChars, 1)))

SpecContext == InitContext /\ [][BuildContext]_vars

\* expandQuery on queries of at most two words: table keys in both cases and
\* with punctuation, words without aliases, a word without tokens, and the
\* name of an inherited property.
QueryWords == {"db", "DB", "db,", "ai/llm", "llm", "ai", "tuning", "database", "?!", "constructor"}
MaxQueryWords == 2

InitExpand ==
  /\ InitEngine
  /\ args \in [fn : {"expandQuery"},
               query : UNION {[1..n -> QueryWords] : n \in 0..MaxQueryWords}]
  /\ ret = NoReturn

ExpandQuery == Returned("expandQuery", expandQuery(args.query))

SpecExpand == InitExpand /\ [][ExpandQuery]_vars

\* chunkText on texts of 1..MaxTokens tokens, the token at position i being i,
\* for every window size and overlap up to MaxWindow.
MaxTokens == 9
MaxWindow == 4

InitChunk ==
  /\ InitEngine
  /\ args \in [fn : {"chunkText"}, tokens : 1..MaxTokens,
               chunkTokens : 1..MaxWindow, overlapTokens : 0..MaxWindow]
  /\ ret = NoReturn

ChunkText ==
  Returned("chunkText",
           chunkText([i \in 1..args.tokens |-> i], args.chunkTokens, args.overlapTokens))

SpecChunk == InitChunk /\ [][ChunkText]_vars

(***************************************************************************)
(* Properties.                                                             *)
(***************************************************************************)
Tables == <<memory_records, memory_vec, memory_fts>>
NewIds == DOMAIN memory_records' \ DOMAIN memory_records

\* C1: when ANN initialization failed at open, a remember of non-empty content
\* and a recall of a non-empty query complete without an error, and the status
\* reports ann.enabled = FALSE.
C1_AnnDisabledCallsSucceed ==
  (dbSingleton /\ ~annStatus.enabled /\ lastOp.op \in {"remember", "recall"} /\ ~lastOp.empty)
    => (lastOp.err = "" /\ getRagStorageStatus.ann.enabled = FALSE)

\* C2: with ANN enabled, in every reachable state a stored record has an ANN
\* entry under its id exactly when its embedding is non-null, and the entry
\* holds the record's current embedding and scope.
C2_IndexCoherence ==
  annStatus.enabled =>
    \A id \in DOMAIN memory_records :
      /\ (id \in DOMAIN memory_vec) <=> ~memory_records[id].embedding.null
      /\ id \in DOMAIN memory_vec =>
           /\ memory_vec[id].embedding = memory_records[id].embedding
           /\ memory_vec[id].scope = memory_records[id].scope

\* ANN is enabled and the store holds a session-scoped record with its ANN
\* entry, a record that a recall returned and a record marked invalid.
C2_Witness ==
  /\ annStatus.enabled
  /\ \E id \in DOMAIN memory_records :
        memory_records[id].scope = "session" /\ id \in DOMAIN memory_vec
  /\ \E id \in DOMAIN memory_records : memory_records[id].recallCount > 0
  /\ \E id \in DOMAIN memory_records : memory_records[id].isNegative

\* C3: forget(id) always returns successfully, with ANN enabled or disabled;
\* afterwards id is in no table, and for an id that was not stored the three
\* tables are unchanged.
C3_ForgetTotalIdempotent ==
  [][\A id \in Ids :
       DeleteMemory(id) =>
         /\ lastOp'.err = ""
         /\ id \notin DOMAIN memory_records'
         /\ id \notin DOMAIN memory_vec'
         /\ \A e \in memory_fts' : e.id # id
         /\ id \notin DOMAIN memory_records => Tables' = Tables]_vars

C5_DedupIdempotence ==
  [][(/\ annStatus.enabled
      /\ \E id \in DOMAIN memory_records :
            memory_records[id].content = Freedom /\ memory_records[id].scope = "global"
      /\ Remember(Freedom, DefaultOptions, 0))
     => /\ lastOp'.err = ""
        /\ DOMAIN memory_records' = DOMAIN memory_records
        /\ \A id \in DOMAIN memory_records :
             (memory_records[id].content = Freedom
                /\ memory_records[id].importance = DEFAULT_IMPORTANCE)
               => memory_records'[id].importance = DEFAULT_IMPORTANCE]_vars

\* C6: with ANN enabled, when two interleaved remember calls of the same text
\* and scope have both ended, exactly one row holds that text.
C6_ConcurrentRememberOneRow ==
  (/\ annStatus.enabled
   /\ \A p \in Procs : Finished(p)
   /\ \A p, q \in Procs : calls[p].content = calls[q].content)
    => Cardinality({id \in DOMAIN memory_records :
                      memory_records[id].content = calls[1].content}) = 1

\* C7: every stored record's kind is one of identity, task, knowledge,
\* reference, note, unclassified; "auto" is never stored.
C7_ClosedKindEnum ==
  \A id \in DOMAIN memory_records : memory_records[id].kind \in MEMORY_KINDS

\* C8: a remember called with kind absent or "auto" stores every new row with
\* the kind inferKindByEmbedding returns for that row's embedding.
C8_AutoKindIsClassified ==
  [][lastOp'.op = "remember" =>
       \A id \in NewIds :
         memory_records'[id].kind =
           inferKindByEmbedding(Store, memory_records'[id].embedding,
                                memory_records'[id].scope, NoLearnedPrototypes).kind]_vars

\* C9: a recall with an empty query fails with the EmptyQuery error.
C9_EmptyQueryFails ==
  (lastOp.op = "recall" /\ lastOp.empty) => lastOp.err = "EmptyQuery"

\* A step of RecallScored: the only action that leaves lastOp.op = "recall"
\* without moving the clock.
RecallStep == lastOp'.op = "recall" /\ clock' = clock

\* C10, strict form: every recall raises the recallCount of each returned
\* record by exactly 1 and sets its lastRecalledAt strictly above the former
\* value.
C10_StrictlyIncreases ==
  [][RecallStep =>
       \A id \in Range(lastOp'.ids) :
         /\ memory_records'[id].recallCount = memory_records[id].recallCount + 1
         /\ memory_records'[id].lastRecalledAt > memory_records[id].lastRecalledAt]_vars

\* C10, monotone form: every recall raises the recallCount of each returned
\* record by exactly 1 and sets its lastRecalledAt to the clock reading of the
\* call, which is never below the former value.
C10_RecallMetricsMonotone ==
  [][RecallStep =>
       \A id \in Range(lastOp'.ids) :
         /\ memory_records'[id].recallCount = memory_records[id].recallCount + 1
         /\ memory_records'[id].lastRecalledAt = clock
         /\ memory_records'[id].lastRecalledAt >= memory_records[id].lastRecalledAt]_vars

\* A recall has just returned a record for the second time.
C10_Witness ==
  /\ lastOp.op = "recall"
  /\ \E id \in DOMAIN memory_records :
        memory_records[id].recallCount >= 2 /\ memory_records[id].lastRecalledAt = clock

\* The ids of a list of scored candidates.
IdsOf(scored) == {scored[i].m.id : i \in 1..Len(scored)}

\* C11: for candidates with pairwise distinct ids and a limit >= 0,
\* rerankWithMMR returns exactly min(limit, N) items, with pairwise distinct
\* ids that all belong to the input.
C11_MMRSizeContract ==
  (args.fn = "rerankWithMMR" /\ ret.done) =>
    /\ Len(ret.val) = Min(args.limit, Len(args.candidates))
    /\ Cardinality(IdsOf(ret.val)) = Len(ret.val)
    /\ Range(ret.val) \subseteq Range(args.candidates)

\* rerankWithMMR has cut four candidates down to two.
C11_Witness ==
  /\ args.fn = "rerankWithMMR" /\ ret.done
  /\ Len(args.candidates) = 4 /\ args.limit = 2
  /\ Len(ret.val) = 2

\* order lists the selection in an order in which every pick maximizes
\* 0.75 * score - 0.25 * maxSim against the picks before it, a tie going to the
\* candidate that stands earlier in the score-descending pool.
GreedyOrder(order, pool) ==
  \A k \in 1..Len(order) :
    LET before == SubSeq(order, 1, k - 1)
        value(c) == 75 * pool[c].score -
                    25 * MaxSimilarity(pool[c], [i \in 1..Len(before) |-> pool[before[i]]])
    IN \A r \in (1..Len(pool)) \ Range(before) :
         \/ value(order[k]) > value(r)
         \/ value(order[k]) = value(r) /\ order[k] <= r

C13_NegativeStrictlyLower ==
  (args.fn = "scoreCandidates" /\ ret.done) =>
    /\ ret.val[2].score >= ret.val[1].score
    /\ ret.val[3].score < ret.val[2].score
    /\ ret.val[3].score = Max(0, ret.val[2].score - SCALE \div 4)

\* C13, floor form: the larger validityScore never has the smaller score; the
\* negative candidate's score is the other's minus 0.25, floored at 0, which is
\* strictly lower exactly when the other's score is above 0.
C13_ScoreMonotone ==
  (args.fn = "scoreCandidates" /\ ret.done) =>
    /\ ret.val[2].score >= ret.val[1].score
    /\ ret.val[3].score = Max(0, ret.val[2].score - SCALE \div 4)
    /\ (ret.val[3].score < ret.val[2].score) <=> (ret.val[2].score > 0)

\* scoreCandidates has scored a candidate above 0.25 whose negative twin is
\* exactly 0.25 lower and whose less valid twin is strictly lower.
C13_Witness ==
  /\ args.fn = "scoreCandidates" /\ ret.done
  /\ ret.val[2].score > SCALE \div 4
  /\ ret.val[3].score = ret.val[2].score - SCALE \div 4
  /\ ret.val[1].score < ret.val[2].score

\* The score scoreCandidates gives record m for the query of the call.
OwnScores(m) ==
  {ScoreOne(args.query, embedText(args.query), m,
            IF hit THEN {m.id} ELSE {}, 1).score : hit \in BOOLEAN}

\* Every returned item either carries its own score or is a chunk of the
\* same parent, at most one index away from a scored chunk, carrying that
\* chunk's score minus 0.1 floored at 0.
SiblingsOnlyInWindow ==
  \A i \in 1..Len(ret.val) :
    LET item == ret.val[i]
        rec == DocStore(args).rec
    IN \/ item.score \in OwnScores(item.m)
       \/ \E id \in DOMAIN rec :
            /\ rec[id].parentId = item.m.parentId
            /\ rec[id].chunkIndex \in (item.m.chunkIndex - 1)..(item.m.chunkIndex + 1)
            /\ \E own \in OwnScores(rec[id]) : item.score = Max(0, own - SCALE \div 10)

\* A recall with limit 3 whose only scored candidate is chunk #1.
OnlyChunkOneScored ==
  /\ args.fn = "recallScored" /\ ret.done
  /\ args.limit = 3 /\ args.recallLimit = 1
  /\ Len(ret.val) >= 1
  /\ ret.val[1].m.chunkIndex = 1

\* C14, strict form: a recall with limit 3 whose only scored candidate is
\* chunk #1 of a document of at least 3 chunks returns chunks #0, #1, #2, with
\* #0 and #2 scored strictly below #1; only same-parent chunks within one index
\* that are not already present are added, and a present item keeps its score.
C14_SiblingsStrictlyLower ==
  /\ (args.fn = "recallScored" /\ ret.done) => SiblingsOnlyInWindow
  /\ OnlyChunkOneScored =>
       /\ {ret.val[i].m.chunkIndex : i \in 1..Len(ret.val)} = {0, 1, 2}
       /\ Len(ret.val) = 3
       /\ \A i \in 2..Len(ret.val) : ret.val[i].score < ret.val[1].score

\* C14, floor form: as above, with #0 and #2 scored at chunk #1's score minus
\* 0.1 floored at 0, which is strictly below it exactly when it is above 0.
C14_SiblingExpansion ==
  /\ (args.fn = "recallScored" /\ ret.done) => SiblingsOnlyInWindow
  /\ OnlyChunkOneScored =>
       /\ {ret.val[i].m.chunkIndex : i \in 1..Len(ret.val)} = {0, 1, 2}
       /\ Len(ret.val) = 3
       /\ \A i \in 2..Len(ret.val) :
            /\ ret.val[i].score = Max(0, ret.val[1].score - SCALE \div 10)
            /\ (ret.val[i].score < ret.val[1].score) <=> (ret.val[1].score > 0)

\* Chunk #1 was the only scored candidate, with a score above 0.1, and its
\* two neighbours came back 0.1 below it.
C14_Witness ==
  /\ OnlyChunkOneScored
  /\ ret.val[1].score > SCALE \div 10
  /\ Len(ret.val) = 3
  /\ ret.val[2].score = ret.val[1].score - SCALE \div 10
  /\ ret.val[3].score = ret.val[1].score - SCALE \div 10

Uninitialized == annStatus.message = "uninitialized"
Disabled == dbSingleton /\ ~annStatus.enabled
ProbeEmbeddings == {embedText(Freedom), embedText(Liberty), embedText(DbTuning)}
ProbeScopes == {Undefined, "global", "session"}
DisabledSearchesEmpty ==
  Disabled =>
    \A e \in ProbeEmbeddings, scope \in ProbeScopes :
      /\ searchVectorIds(Store, e, DEDUP_CANDIDATE_LIMIT, scope) = << >>
      /\ findSemanticDuplicate(Store, e, scope, DEDUP_THRESHOLD) = NullId
      /\ searchKindNeighbors(Store, e, KIND_NEIGHBOR_LIMIT, scope) = << >>
AnnStatusStep ==
  /\ (annStatus' # annStatus) =>
       (Uninitialized /\ ~dbSingleton /\ dbSingleton' /\ ~Uninitialized')
  /\ Disabled => Disabled'
C16_AnnStateMachine == []DisabledSearchesEmpty /\ [][AnnStatusStep]_vars
\* A store opened with sqlite-vec whose index sync failed: the status is
\* disabled while memory_vec holds the entry of a stored record.
C16_Witness ==
  /\ Disabled
  /\ \E id \in DOMAIN memory_records : id \in DOMAIN memory_vec
  /\ lastOp.op = "recall"


\* C17.  Every step that inserts rows under a parentId no stored row had
\* before leaves the rows of that parentId with the chunkIndex values
\* 0, 1, ..., n-1, n the number of those rows.
RowsOfParent(table, p) == {id \in DOMAIN table : table[id].parentId = p}
GapFree(table, p) ==
  /\ {table[id].chunkIndex : id \in RowsOfParent(table, p)}
       = 0..(Cardinality(RowsOfParent(table, p)) - 1)
  /\ \A a, b \in RowsOfParent(table, p) : table[a].chunkIndex = table[b].chunkIndex => a = b
FreshParentsGapFree ==
  \A id \in (DOMAIN memory_records') \ (DOMAIN memory_records) :
    RowsOfParent(memory_records, memory_records'[id].parentId) = {}
      => GapFree(memory_records', memory_records'[id].parentId)
C18_UpdatedNotBeforeCreated ==
  \A id \in DOMAIN memory_records :
    memory_records[id].updatedAt >= memory_records[id].createdAt
\* A remember call that took its timestamp before another call's record was
\* created has found that record as the duplicate of its chunk and has run
\* its merge step.
C18_Witness ==
  \E p \in Procs :
    /\ calls[p].pc = "failed"
    /\ calls[p].duplicate \in DOMAIN memory_records
    /\ calls[p].now < memory_records[calls[p].duplicate].createdAt


\* C19.  For every scope/query filter countMemoriesByKind returns a map whose
\* keys are the six enum kinds, each value being the number of stored records
\* of that kind that match the filter, and the values sum to the number of
\* stored records that match the filter.
CountFilters ==
  {[scope |-> Undefined, query |-> << >>],
   [scope |-> "session", query |-> << >>],
   [scope |-> Undefined, query |-> <<"freedom">>]}
Matching(opts) == {id \in DOMAIN memory_records : MatchesFilter(memory_records[id], opts)}
CountsAreExact(opts) ==
  /\ DOMAIN countMemoriesByKind(Store, opts) = MEMORY_KINDS
  /\ \A kind \in MEMORY_KINDS :
       countMemoriesByKind(Store, opts)[kind]
         = Cardinality({id \in Matching(opts) : memory_records[id].kind = kind})
CountsSumToTotal(opts) ==
  SumOver(countMemoriesByKind(Store, opts), MEMORY_KINDS) = Cardinality(Matching(opts))
C19_CountsByKind ==
  \A opts \in CountFilters : CountsAreExact(opts) /\ CountsSumToTotal(opts)


\* C20.  buildContext has one block per parentId of the recalled memories,
\* carrying the group's maximum score and its chunks in chunkIndex order; the
\* blocks are in non-increasing order of score; and the lines returned are
\* the longest prefix of the blocks whose lengths sum to at most maxChars.
RecalledParents(memories) == {memories[i].m.parentId : i \in 1..Len(memories)}
MembersOf(memories, p) == {memories[i] : i \in {j \in 1..Len(memories) : memories[j].m.parentId = p}}
RECURSIVE ContentsInIndexOrder(_, _)
ContentsInIndexOrder(members, indexes) ==
  IF indexes = << >> THEN << >>
  ELSE (CHOOSE x \in members : x.m.chunkIndex = Head(indexes)).m.content
         \o ContentsInIndexOrder(members, Tail(indexes))
IsBlockOf(block, members) ==
  /\ \E x \in members : block.score = x.score
  /\ \A x \in members : block.score >= x.score
  /\ block.text.merged
       = ContentsInIndexOrder(members, IdsAsc({x.m.chunkIndex : x \in members}))
RECURSIVE LengthOfFirst(_, _)
LengthOfFirst(blocks, k) ==
  IF k = 0 THEN 0 ELSE LengthOfFirst(blocks, k - 1) + BlockLength(blocks[k].text)
OneBlockPerParent(memories, blocks) ==
  /\ Len(blocks) = Cardinality(RecalledParents(memories))
  /\ \A p \in RecalledParents(memories) :
       \E i \in 1..Len(blocks) : IsBlockOf(blocks[i], MembersOf(memories, p))
  /\ \A i, j \in 1..Len(blocks) : i < j => blocks[i].score >= blocks[j].score
LongestPrefixWithin(parts, blocks, maxChars) ==
  /\ Len(parts) <= Len(blocks)
  /\ \A i \in 1..Len(parts) : parts[i] = blocks[i].text
  /\ LengthOfFirst(blocks, Len(parts)) <= maxChars
  /\ Len(parts) < Len(blocks) => LengthOfFirst(blocks, Len(parts) + 1) > maxChars
C20_GreedyContext ==
  (args.fn = "buildContext" /\ ret.done) =>
    /\ OneBlockPerParent(ret.val.memories, parentBlocks(ret.val.memories))
    /\ LongestPrefixWithin(ret.val.parts, parentBlocks(ret.val.memories), args.maxChars)
\* A call over three groups, one of three chunks: the first line was kept, the
\* second did not fit and ended the output, and the third, left out, would
\* have fitted.
LaterLineWouldFit(parts, blocks, maxChars) ==
  /\ Len(parts) = 1
  /\ Len(blocks) = 3
  /\ Len(blocks[2].text.merged) > CHUNK_TOKENS
  /\ BlockLength(blocks[1].text) + BlockLength(blocks[3].text) <= maxChars
C20_Witness ==
  /\ args.fn = "buildContext" /\ ret.done
  /\ LaterLineWouldFit(ret.val.parts, parentBlocks(ret.val.memories), args.maxChars)


\* C21.  For the empty query expandQuery returns the empty list; for every
\* other query Q it returns a list without duplicates whose first element is
\* Q and which holds, for every alias a of every token of Q, both a and
\* "Q a", the elements being in the order in which they are first added.
PositionIn(seq, x) == CHOOSE i \in 1..Len(seq) : seq[i] = x /\ \A j \in 1..(i - 1) : seq[j] # x
Additions(q) == <<q>> \o ExpandTokens(q, tokenize(q), 1)
ExpandsTo(q, list) ==
  /\ \A i, j \in 1..Len(list) : list[i] = list[j] => i = j
  /\ list[1] = q
  /\ \A i \in 1..Len(tokenize(q)) :
       \A k \in 1..Len(EXPANSION_MAP(tokenize(q)[i])) :
         /\ EXPANSION_MAP(tokenize(q)[i])[k] \in Range(list)
         /\ (q \o EXPANSION_MAP(tokenize(q)[i])[k]) \in Range(list)
  /\ \A x, y \in Range(list) :
       PositionIn(list, x) < PositionIn(list, y)
         => PositionIn(Additions(q), x) < PositionIn(Additions(q), y)
C21_ExpandQuery ==
  (args.fn = "expandQuery" /\ ret.done) =>
    /\ ret.val.err = ""
    /\ args.query = << >> => ret.val.val = << >>
    /\ args.query # << >> => ExpandsTo(args.query, ret.val.val)


\* C22.  For a text of more than chunkTokens tokens and an overlap below
\* chunkTokens, the windows chunkText returns are runs of consecutive
\* positions that together cover every position, and each window shares
\* exactly overlapTokens positions with the next one.
IsRun(window) == \A i \in 1..(Len(window) - 1) : window[i + 1] = window[i] + 1
CoverAndOverlap(windows, tokens, overlapTokens) ==
  /\ \A k \in 1..Len(windows) : windows[k] # << >> /\ IsRun(windows[k])
  /\ UNION {Range(windows[k]) : k \in 1..Len(windows)} = 1..tokens
  /\ \A k \in 1..(Len(windows) - 1) :
       Cardinality(Range(windows[k]) \cap Range(windows[k + 1])) = overlapTokens
C22_ChunkCoverageOverlap ==
  (/\ args.fn = "chunkText" /\ ret.done
   /\ args.tokens > args.chunkTokens
   /\ args.overlapTokens < args.chunkTokens)
    => CoverAndOverlap(ret.val, args.tokens, args.overlapTokens)
\* A text cut into at least three windows that overlap, the last one shorter
\* than chunkTokens.
C22_Witness ==
  /\ args.fn = "chunkText" /\ ret.done
  /\ args.overlapTokens > 0 /\ args.overlapTokens < args.chunkTokens
  /\ Len(ret.val) >= 3
  /\ Len(ret.val[Len(ret.val)]) < args.chunkTokens


\* C23.  In every state of an open store, whether or not memory_fts and
\* memory_vec can be written, insertMemoryRows of a new row raises no error
\* and the record is stored.
PendingRow(content) ==
  NewRow(nextUuid, nextUuid, 0, content, embedText(content), estimateTokenCount(content),
         DefaultOptions, clock)
CommittedWithoutError(ins, rows) ==
  /\ ins.err = ""
  /\ RowIds(rows) \subseteq DOMAIN ins.st.rec
C23_IndexFailuresNotFatal ==
  dbSingleton =>
    CommittedWithoutError(insertMemoryRows(Store, <<PendingRow(Freedom)>>, 0),
                          <<PendingRow(Freedom)>>)


\* C24.  The merge remember performs on a stored record, for a chunk and an
\* importance of its call, raises nothing, keeps the set of rows, sets the
\* target's content, kind, embedding and tokenCount to the incoming values,
\* importance to min(1, 0.9*old + 0.1*new), strictly between the two when
\* they differ, validityScore to min(1, old + 0.01) and updatedAt to now, and
\* leaves the target's other fields and every other row as they were.
HighImportance == [DefaultOptions EXCEPT !.importance = (9 * SCALE) \div 10]
MergedByRemember(id, chunk, opts) ==
  mergeIntoExistingMemory(Store, id,
                          MergeIncoming(chunk, embedText(chunk), estimateTokenCount(chunk),
                                        opts, clock))
StrictlyBetween(x, a, b) == (a < b => (a < x /\ x < b)) /\ (b < a => (b < x /\ x < a))
TargetMerged(old, new, chunk, opts) ==
  /\ new.content = chunk
  /\ new.kind = KindOrDefault(opts.kind)
  /\ new.embedding = embedText(chunk)
  /\ new.tokenCount = estimateTokenCount(chunk)
  /\ new.importance = Min(SCALE, (90 * old.importance + 10 * opts.importance) \div 100)
  /\ StrictlyBetween(new.importance, old.importance, opts.importance)
  /\ new.validityScore = Min(SCALE, old.validityScore + SCALE \div 100)
  /\ new.updatedAt = clock
  /\ new.id = old.id /\ new.parentId = old.parentId /\ new.chunkIndex = old.chunkIndex
  /\ new.scope = old.scope /\ new.createdAt = old.createdAt
  /\ new.recallCount = old.recallCount /\ new.lastRecalledAt = old.lastRecalledAt
  /\ new.isNegative = old.isNegative
MergeEffect(m, id, chunk, opts) ==
  /\ m.err = ""
  /\ DOMAIN m.st.rec = DOMAIN memory_records
  /\ TargetMerged(memory_records[id], m.st.rec[id], chunk, opts)
  /\ \A other \in DOMAIN memory_records \ {id} : m.st.rec[other] = memory_records[other]
C24_MergeEffect ==
  \A id \in DOMAIN memory_records :
    MergeEffect(MergedByRemember(id, Liberty, HighImportance), id, Liberty, HighImportance)


\* C25: each kind's learned queue holds at most 64 vectors, and a
\* classification appends the embedding to the queue of the kind it returns
\* exactly when that kind is not unclassified and the confidence exceeds
\* 0.93, dropping the oldest entry first when the queue is full; it changes
\* nothing else of the queues.
QueuesBounded ==
  args.fn = "classify" =>
    \A k \in Range(KINDS) : Len(args.learned[k]) <= MAX_LEARNED_PROTOTYPES_PER_KIND
Learns(r) == r.kind # "unclassified" /\ r.confidence > (93 * SCALE) \div 100
Enqueued(queue, e) ==
  IF Len(queue) = MAX_LEARNED_PROTOTYPES_PER_KIND
  THEN [i \in 1..Len(queue) |-> IF i < Len(queue) THEN queue[i + 1] ELSE e]
  ELSE [i \in 1..(Len(queue) + 1) |-> IF i <= Len(queue) THEN queue[i] ELSE e]
LearnsExactly(old, new, r, e) ==
  \A k \in Range(KINDS) :
    new[k] = IF Learns(r) /\ k = r.kind THEN Enqueued(old[k], e) ELSE old[k]
ClassificationLearns ==
  args.fn = "classify" =>
    LearnsExactly(args.learned, args'.learned, ret'.val, args'.memoryEmbedding)
InUnitInterval(x) == 0 <= x /\ x <= SCALE
C26_ScoresInUnitInterval ==
  \A id \in DOMAIN memory_records :
    /\ InUnitInterval(memory_records[id].importance)
    /\ InUnitInterval(memory_records[id].validityScore)


\* C27: after any sequence of embedText calls, on texts that trim to the
\* empty string too, the query-embedding cache holds at most 512 entries,
\* and an entry that a call evicts is the least recently used one.
CacheBounded == args.fn = "embedText" => Len(args.cache) <= CACHE_LIMIT
EvictsLeastRecentlyUsed ==
  args.fn = "embedText" =>
    \A i \in 1..Len(args.cache) :
      ~HasKey(args'.cache, args.cache[i]) => args.cache[i] = args.recent[1]
C27_BoundedLruCache == []CacheBounded /\ [][EvictsLeastRecentlyUsed]_vars


\* C28: with ANN enabled, after any sequence of sequential remember calls no
\* two stored records of one scope have embeddings with cosine similarity of
\* 0.95 or more, two chunks of a single call included.
SemanticDuplicates(a, b) ==
  /\ a # b
  /\ memory_records[a].scope = memory_records[b].scope
  /\ ~memory_records[a].embedding.null
  /\ ~memory_records[b].embedding.null
  /\ cosine(memory_records[a].embedding, memory_records[b].embedding) >= DEDUP_THRESHOLD
C28_NoSemanticDuplicates ==
  annStatus.enabled =>
    \A a, b \in DOMAIN memory_records : ~SemanticDuplicates(a, b)


\* C29: recallScored(query, {scope: S}) returns only records of scope S and
\* bumps the recall metrics of no record of another scope, whatever the
\* FTS index matches and whatever siblings exist.
OnlyScope(scope) ==
  /\ \A i \in 1..Len(lastOp'.ids) : memory_records[lastOp'.ids[i]].scope = scope
  /\ \A id \in DOMAIN memory_records :
       memory_records'[id] # memory_records[id] => memory_records[id].scope = scope
C29_ScopeIsolation ==
  [][\A query \in {Freedom, DbTuning}, scope \in Scopes :
       RecallScored(query, ScopedRecall(scope)) => OnlyScope(scope)]_vars


\* C30: the list recallScored returns is in non-increasing order of final
\* score, for every corpus and limit, also when the sibling-expanded set has
\* at most limit items and the second rerank returns it as it is.
C30_RecallOrdered ==
  (args.fn = "recallScored" /\ ret.done) =>
    \A i \in 1..(Len(ret.val) - 1) : ret.val[i].score >= ret.val[i + 1].score

====
